---- MODULE Spec2Model ----
(***************************************************************************)
(* Lead-generation orchestrator (agents/coordinator.ts), its compliance    *)
(* checker (compliance/checker.ts) and the shared cache (utils/cache.ts).  *)
(*                                                                         *)
(* Strings whose characters the code inspects (emails, phones, names,      *)
(* paths) are sequences of one-character strings.  Confidence scores are   *)
(* integers in hundredths (80 stands for 0.80).  Times are in seconds.     *)
(***************************************************************************)
EXTENDS Integers, Sequences, FiniteSets, TLC

VARIABLES
    \* ---- AgentState channels of the coordinator graph ----
    node,                   \* graph node about to run ("END" after merge_results)
    currentTask,            \* state.currentTask (NoTask when undefined)
    pendingTasks,           \* state.pendingTasks
    completedTasks,         \* state.completedTasks (task ids)
    extractedLeads,         \* state.extractedLeads
    errors,                 \* state.errors
    humanApprovalRequired,  \* state.humanApprovalRequired
    currentAction,          \* state.currentAction
    retryCount,             \* state.context.retryCount (0 when unset)
    outcome,                \* executeTasks: "running", "returned" or "raised"
    schemaInScope,          \* does the name LeadSchema resolve inside coordinator.ts
    \* ---- history of the run (not read by the program) ----
    submitted,              \* the task list handed to executeTasks
    dispatched,             \* id -> number of times a handler was run on the task
    failed,                 \* id -> number of those dispatches that threw
    lastDispatch,           \* the last handler call: [task, ok] (NoDispatch before)
    accepted,               \* leads pushed to validatedLeads by validateLeads so far
    queuedAhead,            \* id -> ids pending when the task was last requeued, not dispatched since
    \* ---- merge as a function (removeDuplicateLeads + sort) ----
    mergeIn,                \* a record list handed to merge
    mergeOut,               \* merge(mergeIn)
    mergeTwice,             \* merge(merge(mergeIn))
    mergePc,                \* "idle" | "ready" | "once" | "twice"
    \* ---- process-wide CacheManager and the clock ----
    cache,                  \* key -> [value, expires] of node-cache (live or not)
    now,                    \* Date.now() in seconds
    ticks,                  \* number of clock advances so far
    \* ---- ComplianceChecker ----
    config,                 \* ConfigManager.getInstance().config.compliance
    robotsServed,           \* host -> what GET /robots.txt yields when the fetch succeeds
    fetchFailed,            \* has a robots.txt fetch failed (network error, timeout)
    lastCheck,              \* the last checkCompliance call and what it gave back
    \* ---- CacheManager called directly, checkRateLimit ----
    statistics,             \* CacheManager.statistics: [hits, misses, sets], followed for these calls
    opLog,                  \* history: [gets, sets, ops] calls made so far
    written,                \* history: key -> [value, at, ttl] of the last set still standing
    lastOp,                 \* the last call and what it gave back
    \* ---- validateLeadData called over time ----
    verdicts,               \* history: lead -> [first, firstAt, last, lastAt] verdicts
    \* ---- the caller of executeTasks ----
    cancel,                 \* a cancellation request of the caller: [requested, dispatched, inFlight]
    \* ---- task factory helpers ----
    created,                \* the tasks the factory helpers have returned, in call order
    \* ---- checkCompliance calls that overlap ----
    flight,                 \* [open, done]: calls waiting at an await, and calls that returned
    \* ---- calculateConfidence of the three agents ----
    scored,                 \* the data scored last: [agent, fields, kind, confidence, before]
    \* ---- StagehandWrapper.navigateWithCompliance ----
    nav,                    \* history: [calls, visits, last] of the calls made so far
    \* ---- AgentState channels of the search/navigate/extract graph (graph.ts) ----
    step,                   \* graph node about to run ("END" when the graph is done)
    search_results,         \* state.search_results
    processed_urls,         \* state.processed_urls
    current_url,            \* state.current_url (NullUrl when null)
    extracted_data,         \* state.extracted_data
    user_approved_data,     \* state.user_approved_data
    final_output,           \* state.final_output
    error,                  \* state.error (NoFlowError when undefined)
    extractionCache,        \* the module-level Map of extractionAgent: url -> data
    trail                   \* history of the graph run (not read by the program)

runVars   == <<node, currentTask, pendingTasks, completedTasks, extractedLeads, errors,
               humanApprovalRequired, currentAction, retryCount, outcome, schemaInScope,
               submitted, dispatched, failed, lastDispatch, accepted, queuedAhead>>
mergeVars == <<mergeIn, mergeOut, mergeTwice, mergePc>>
cacheVars == <<cache, now, ticks>>
compVars  == <<config, robotsServed, fetchFailed, lastCheck>>
flowVars  == <<step, search_results, processed_urls, current_url, extracted_data,
               user_approved_data, final_output, error, extractionCache, trail>>
sideVars  == <<scored, nav, flowVars>>
auxVars   == <<statistics, opLog, written, lastOp, verdicts, cancel, created, flight,
               sideVars>>
vars      == <<runVars, mergeVars, cacheVars, compVars, auxVars>>

(***************************************************************************)
(* Bounds of the model.                                                    *)
(***************************************************************************)
MaxTasks == 2          \* longest task list handed to executeTasks
MaxMergeLen == 3       \* longest record list handed to merge on its own
MaxClock == 2          \* number of clock advances explored
MaxOps == 4            \* number of direct cache calls explored
MaxCreated == 3        \* number of factory calls explored

(***************************************************************************)
(* Small helpers on sequences.                                             *)
(***************************************************************************)
Range(s) == {s[i] : i \in 1..Len(s)}

RECURSIVE SumOver(_, _)
SumOver(f, S) == IF S = {} THEN 0
                 ELSE LET x == CHOOSE y \in S : TRUE IN f[x] + SumOver(f, S \ {x})

Count(s, x) == Cardinality({i \in 1..Len(s) : s[i] = x})

\* String.prototype.startsWith on character sequences
StartsWith(s, p) == Len(p) <= Len(s) /\ SubSeq(s, 1, Len(p)) = p

\* An optional field that is absent (JavaScript undefined)
Undef == <<"<undefined>">>

\* JavaScript truthiness of an optional string: undefined and "" are falsy
Truthy(s) == s # Undef /\ s # <<>>

\* `${v}` of an optional string
Str(v) == IF v = Undef THEN <<"u","n","d","e","f","i","n","e","d">> ELSE v

(***************************************************************************)
(* Records (leads).  types/index.ts LeadSchema; the fields the coordinator *)
(* reads are name, email, phone, company, confidence and verified.         *)
(***************************************************************************)
Digits  == {"0","1","2","3","4","5","6","7","8","9"}
Letters == {"a","b","c","d","e","f","g","h","i","j","k","l","m","n","o","p","q","r",
            "s","t","u","v","w","x","y","z",
            "A","B","C","D","E","F","G","H","I","J","K","L","M","N","O","P","Q","R",
            "S","T","U","V","W","X","Y","Z"}
Whitespace == {" "}

MkLead(n, e, p, c, conf) ==
    [name |-> n, email |-> e, phone |-> p, company |-> c, confidence |-> conf,
     verified |-> FALSE]

\* z.string().email(): zod's pattern, one "@", a dotted domain of labels and a
\* top-level label of two or more letters
ZodEmail(s) ==
    \E i \in 1..Len(s) :
        /\ s[i] = "@"
        /\ \A j \in 1..Len(s) : s[j] = "@" => j = i
        /\ i > 1 /\ i < Len(s)
        /\ s[1] # "."
        /\ \A j \in 1..(Len(s) - 1) : ~(s[j] = "." /\ s[j + 1] = ".")
        /\ \A j \in 1..(i - 1) : s[j] \in Letters \cup Digits \cup {"_", "+", "-", "."}
        /\ s[i - 1] # "."
        /\ s[i + 1] \in Letters \cup Digits
        /\ \A j \in (i + 1)..Len(s) : s[j] \in Letters \cup Digits \cup {"-", "."}
        /\ \A j \in (i + 1)..(Len(s) - 1) : s[j] = "." => s[j + 1] \in Letters \cup Digits
        /\ \E d \in (i + 2)..(Len(s) - 2) :
              /\ s[d] = "."
              /\ \A j \in (d + 1)..Len(s) : s[j] \in Letters

\* LeadSchema.parse(lead) succeeds (otherwise it throws a ZodError)
SchemaAccepts(lead) ==
    /\ lead.name # Undef /\ Len(lead.name) >= 1
    /\ lead.email # Undef => ZodEmail(lead.email)
    /\ lead.confidence >= 0 /\ lead.confidence <= 100

\* /^[^\s@]+@[^\s@]+\.[^\s@]+$/.test(s)
EmailRegexTest(s) ==
    \E i \in 1..Len(s) :
        /\ s[i] = "@"
        /\ \A j \in 1..Len(s) : s[j] = "@" => j = i
        /\ \A j \in 1..Len(s) : s[j] \notin Whitespace
        /\ i > 1
        /\ \E d \in (i + 2)..(Len(s) - 1) : s[d] = "."

\* phone.replace(/\D/g, '').length
PhoneDigits(p) == Cardinality({i \in 1..Len(p) : p[i] \in Digits})

\* validateLeadData, the rules below the cache lookup
ValidateRules(lead) ==
    /\ Truthy(lead.email) => EmailRegexTest(lead.email)
    /\ Truthy(lead.phone) => (PhoneDigits(lead.phone) >= 10 /\ PhoneDigits(lead.phone) <= 15)
    /\ Truthy(lead.name) /\ Len(lead.name) >= 2

\* lead.email || lead.phone || lead.name, the suffix of the validation cache key
ValidationKey(lead) ==
    IF Truthy(lead.email) THEN lead.email
    ELSE IF Truthy(lead.phone) THEN lead.phone ELSE lead.name

\* lead.email || lead.phone || `${lead.name}-${lead.company}`
Identifier(lead) ==
    IF Truthy(lead.email) THEN lead.email
    ELSE IF Truthy(lead.phone) THEN lead.phone
    ELSE Str(lead.name) \o <<"-">> \o Str(lead.company)

(***************************************************************************)
(* removeDuplicateLeads and mergeResults.                                  *)
(***************************************************************************)
\* uniqueLeads.findIndex(existing => identifier(existing) === id); 0 for -1
FindIndex(unique, id) ==
    IF \E i \in 1..Len(unique) : Identifier(unique[i]) = id
    THEN CHOOSE i \in 1..Len(unique) :
            /\ Identifier(unique[i]) = id
            /\ \A j \in 1..(i - 1) : Identifier(unique[j]) # id
    ELSE 0

\* (variant: a tie replaces the earlier record)
ReplacesAtLeast(lead, existing) == lead.confidence >= existing.confidence
\* lead.confidence > uniqueLeads[existingIndex].confidence
Replaces(lead, existing) == lead.confidence > existing.confidence

\* one iteration of the for loop of removeDuplicateLeads
DedupStep(seen, unique, lead) ==
    LET id == Identifier(lead) IN
    IF id \notin seen THEN Append(unique, lead)
    ELSE LET k == FindIndex(unique, id) IN
         IF k >= 1 /\ Replaces(lead, unique[k]) THEN [unique EXCEPT ![k] = lead]
         ELSE unique

RECURSIVE DedupLoop(_, _, _, _)
DedupLoop(leads, i, seen, unique) ==
    IF i > Len(leads) THEN unique
    ELSE DedupLoop(leads, i + 1, seen \cup {Identifier(leads[i])},
                   DedupStep(seen, unique, leads[i]))

removeDuplicateLeads(leads) == DedupLoop(leads, 1, {}, <<>>)

\* (variant: the comparator the other way round, a.confidence - b.confidence)
InsertAscending(sorted, x) ==
    LET k == Cardinality({i \in 1..Len(sorted) : sorted[i].confidence <= x.confidence})
    IN SubSeq(sorted, 1, k) \o <<x>> \o SubSeq(sorted, k + 1, Len(sorted))
\* (variant: a sort that is not stable, equal elements end up reversed)
InsertUnstable(sorted, x) ==
    LET k == Cardinality({i \in 1..Len(sorted) : sorted[i].confidence > x.confidence})
    IN SubSeq(sorted, 1, k) \o <<x>> \o SubSeq(sorted, k + 1, Len(sorted))
\* Array.prototype.sort((a, b) => b.confidence - a.confidence): a stable sort,
\* here by insertion behind every element that does not compare after x
InsertSorted(sorted, x) ==
    LET k == Cardinality({i \in 1..Len(sorted) : sorted[i].confidence >= x.confidence})
    IN SubSeq(sorted, 1, k) \o <<x>> \o SubSeq(sorted, k + 1, Len(sorted))

RECURSIVE SortLoop(_, _, _)
SortLoop(leads, i, sorted) ==
    IF i > Len(leads) THEN sorted
    ELSE SortLoop(leads, i + 1, InsertSorted(sorted, leads[i]))

SortByConfidence(leads) == SortLoop(leads, 1, <<>>)

\* mergeResults: the new state.extractedLeads
MergeLeads(leads) == SortByConfidence(removeDuplicateLeads(leads))

(***************************************************************************)
(* CacheManager over node-cache: an entry holds its value and the time it  *)
(* expires; node-cache treats an entry as gone once that time is past,     *)
(* whether or not the periodic check has removed it.                       *)
(***************************************************************************)
DefaultTtl == 3600
ValidationTtl == 86400

CacheLive(c, key, t) == key \in DOMAIN c /\ ~(c[key].expires < t)

\* the store after get: node-cache drops an expired entry when it is read
CacheAfterGet(c, key, t) ==
    IF key \in DOMAIN c /\ ~CacheLive(c, key, t)
    THEN [k \in DOMAIN c \ {key} |-> c[k]]
    ELSE c

\* CacheManager.set(key, value, ttl): ttl || 3600
CacheSet(c, key, v, ttl, t) ==
    LET e == [value |-> v, expires |-> t + (IF ttl = 0 THEN DefaultTtl ELSE ttl)]
    IN [k \in DOMAIN c \cup {key} |-> IF k = key THEN e ELSE c[k]]

EmptyCache == [k \in {} |-> Undef]

(***************************************************************************)
(* Tasks.  types/index.ts TaskConfigSchema; the coordinator reads id, type,*)
(* priority and retryAttempts.                                             *)
(***************************************************************************)
MaxRetryAttempts == 3
DefaultRetryAttempts == 2

NoTask == [id |-> 0, type |-> "none", priority |-> "none", retryAttempts |-> 0]
NoDispatch == [task |-> NoTask, ok |-> TRUE]

TaskProfiles == { [type |-> "linkedin_search",    priority |-> "medium"],
                  [type |-> "directory_scan",     priority |-> "high"],
                  [type |-> "website_extraction", priority |-> "low"] }

TaskLists ==
    UNION { { ts \in [1..n -> [id : 1..n, type : {p.type : p \in TaskProfiles},
                               priority : {p.priority : p \in TaskProfiles},
                               retryAttempts : 0..MaxRetryAttempts]] :
                \A i \in 1..n :
                    /\ ts[i].id = i
                    /\ [type |-> ts[i].type, priority |-> ts[i].priority] \in TaskProfiles }
            : n \in 0..MaxTasks }

Ids(tasks) == {tasks[i].id : i \in 1..Len(tasks)}

(***************************************************************************)
(* What the agents can bring back: the pages of the modelled web.  Every   *)
(* agent builds its leads with verified: false.                            *)
(***************************************************************************)
Txt == [ eAnn   |-> <<"a","@","x",".","c","o">>,
         eShort |-> <<"b","@","y",".","z">>,
         pGood  |-> <<"5","5","5","-","0","1","0","-","0","1","9","9">>,
         pOther |-> <<"5","5","5","-","0","1","0","-","0","1","4","2">>,
         pShort |-> <<"5","5","5">>,
         nAnn |-> <<"A","n","n">>, nAnnB |-> <<"A","n","n","B">>, nBo |-> <<"B","o">>,
         nCy |-> <<"C","y">>, nDz |-> <<"D","z">>, nQ |-> <<"Q">>,
         cAcme |-> <<"A","c","m","e">> ]

Page == [ ann80 |-> MkLead(Txt.nAnn,  Txt.eAnn,   Undef,      Txt.cAcme, 80),
          ann70 |-> MkLead(Txt.nAnn,  Txt.eAnn,   Txt.pShort, Undef,     70),
          ann90 |-> MkLead(Txt.nAnnB, Txt.eAnn,   Txt.pGood,  Txt.cAcme, 90),
          bo70  |-> MkLead(Txt.nBo,   Undef,      Txt.pShort, Undef,     70),
          cy80  |-> MkLead(Txt.nCy,   Undef,      Undef,      Txt.cAcme, 80),
          dz50  |-> MkLead(Txt.nDz,   Txt.eShort, Undef,      Undef,     50),
          q60   |-> MkLead(Txt.nQ,    Undef,      Undef,      Undef,     60) ]

\* the lead lists executeTask of each agent may resolve with
HandlerBatches ==
    [ LinkedIn  |-> { <<>>, <<Page.ann80, Page.bo70>> },
      Directory |-> { <<Page.cy80, Page.ann90>>, <<Page.dz50>> },
      Website   |-> { <<Page.q60, Page.ann80>>, <<Page.ann70>> } ]

(***************************************************************************)
(* The coordinator graph.  Each node returns a partial state that replaces *)
(* the channels it names; an action below is one node together with the    *)
(* edge that leaves it.                                                    *)
(***************************************************************************)
\* the graph started on a state with the given approval flag and retry counter
InitRunWith(approval, count) ==
    /\ submitted \in TaskLists
    /\ pendingTasks = submitted
    /\ node = "task_router"
    /\ currentTask = NoTask
    /\ completedTasks = <<>>
    /\ extractedLeads = <<>>
    /\ errors = <<>>
    /\ humanApprovalRequired = approval
    /\ currentAction = "none"
    /\ retryCount = count
    /\ outcome = "running"
    /\ schemaInScope \in BOOLEAN
    /\ dispatched = [i \in Ids(submitted) |-> 0]
    /\ failed = [i \in Ids(submitted) |-> 0]
    /\ lastDispatch = NoDispatch
    /\ accepted = {}
    /\ queuedAhead = [i \in Ids(submitted) |-> {}]

\* executeTasks: the initial state handed to graph.invoke
InitRun == InitRunWith(FALSE, 0)

\* (variant: the switch has no case for directory_scan)
routingConditionNoDirectory(approval, task) ==
    IF approval THEN "human_approval"
    ELSE IF task = NoTask THEN "complete"
    ELSE CASE task.type = "linkedin_search"    -> "linkedin"
           [] task.type = "website_extraction" -> "website"
           [] OTHER                            -> "complete"
\* routingCondition on the state routeTask leaves behind
routingCondition(approval, task) ==
    IF approval THEN "human_approval"
    ELSE IF task = NoTask THEN "complete"
    ELSE CASE task.type = "linkedin_search"    -> "linkedin"
           [] task.type = "directory_scan"     -> "directory"
           [] task.type = "website_extraction" -> "website"
           [] OTHER                            -> "complete"

\* the path map of addConditionalEdges('task_router', ...)
RouterEdge(label) ==
    CASE label = "linkedin"       -> "linkedin_agent"
      [] label = "directory"      -> "directory_agent"
      [] label = "website"        -> "website_agent"
      [] label = "human_approval" -> "human_approval"
      [] label = "complete"       -> "merge_results"

\* (variant: the queue is handed on without dropping its head)
RouteKeepsHead(pending) == pending
\* routeTask's new pendingTasks when the queue is not empty: pendingTasks.slice(1)
RouteRemaining(pending) == Tail(pending)

\* node task_router
routeTask ==
    /\ node = "task_router"
    /\ outcome = "running"
    /\ IF Len(pendingTasks) = 0
       THEN /\ currentAction' = "complete"
            /\ UNCHANGED <<currentTask, pendingTasks>>
       ELSE /\ currentTask' = Head(pendingTasks)
            /\ pendingTasks' = RouteRemaining(pendingTasks)
            /\ currentAction' = Head(pendingTasks).type
    /\ node' = RouterEdge(routingCondition(humanApprovalRequired, currentTask'))
    /\ UNCHANGED <<completedTasks, extractedLeads, errors, humanApprovalRequired,
                   retryCount, outcome, schemaInScope, submitted, dispatched, failed,
                   lastDispatch, accepted, queuedAhead>>
    /\ UNCHANGED <<auxVars, mergeVars, cacheVars, compVars>>

\* (variant: off by one, <= in place of <)
RetryTestInclusive(count, task) == count <= task.retryAttempts
\* retryCount < (state.currentTask.retryAttempts || 0)
RetryTest(count, task) == count < task.retryAttempts

\* (variant: the copy keeps the budget of the task that failed)
RetryCopyKeepsBudget(task) == task
\* { ...state.currentTask, retryAttempts: (retryAttempts || 0) - 1 }
RetryCopy(task) == [task EXCEPT !.retryAttempts = @ - 1]

\* (variant: the retry copy goes to the head of the queue)
RequeueAtHead(pending, task) == <<RetryCopy(task)>> \o pending
\* pendingTasks: [...state.pendingTasks, { ...state.currentTask, retryAttempts: ... }]
Requeue(pending, task) == Append(pending, RetryCopy(task))

\* the ids still ahead of each requeued task once task `id` has been handed to
\* its handler; `behind` holds the ids the task is requeued behind (none if it
\* is not requeued)
AheadAfter(ahead, id, behind) ==
    [i \in DOMAIN ahead |-> IF i = id THEN behind ELSE ahead[i] \ {id}]

\* an agent node whose handler resolved with `leads`
OnHandlerSuccess(leads) ==
    /\ extractedLeads' = extractedLeads \o leads
    /\ completedTasks' = Append(completedTasks, currentTask.id)
    /\ currentTask' = NoTask
    /\ node' = "validate_leads"
    /\ UNCHANGED <<pendingTasks, errors, retryCount, outcome>>

\* (variant: no catch block; the handler's exception leaves the node, graph.invoke
\* rejects and executeTasks rethrows)
OnHandlerErrorUncaught(agent) ==
    /\ outcome' = "raised"
    /\ node' = "END"
    /\ UNCHANGED <<pendingTasks, currentTask, errors, retryCount, completedTasks,
                   extractedLeads>>
\* (variant: the new error string takes the place of the list)
ErrorsReplaced(errs, e) == <<e>>
\* [...(state.errors || []), e]
ErrorsAfter(errs, e) == Append(errs, e)

\* an agent node whose handler threw: the catch block
OnHandlerError(agent) ==
    /\ IF RetryTest(retryCount, currentTask)
       THEN /\ pendingTasks' = Requeue(pendingTasks, currentTask)
            /\ currentTask' = NoTask
            /\ errors' = ErrorsAfter(errors, [kind |-> "task_retry", agent |-> agent,
                                              n |-> retryCount + 1])
            /\ retryCount' = retryCount + 1
            /\ UNCHANGED completedTasks
       ELSE /\ errors' = ErrorsAfter(errors, [kind |-> "task_failed", agent |-> agent,
                                              n |-> 0])
            /\ completedTasks' = Append(completedTasks, currentTask.id)
            /\ currentTask' = NoTask
            /\ UNCHANGED <<pendingTasks, retryCount>>
    /\ node' = "validate_leads"
    /\ UNCHANGED <<extractedLeads, outcome>>

\* the body shared by the three agent nodes, which differ in the agent they
\* call and in the label of their error strings
AgentNode(agent) ==
    /\ outcome = "running"
    /\ IF currentTask = NoTask
       THEN /\ errors' = Append(errors, [kind |-> "no_current_task", agent |-> agent,
                                         n |-> 0])
            /\ node' = "validate_leads"
            /\ UNCHANGED <<pendingTasks, currentTask, completedTasks, extractedLeads,
                           retryCount, outcome, dispatched, failed, lastDispatch,
                           queuedAhead>>
       ELSE /\ dispatched' = [dispatched EXCEPT ![currentTask.id] = @ + 1]
            /\ \E ok \in BOOLEAN :
                 /\ lastDispatch' = [task |-> currentTask, ok |-> ok]
                 /\ queuedAhead' = AheadAfter(queuedAhead, currentTask.id,
                                      IF ~ok /\ RetryTest(retryCount, currentTask)
                                      THEN Ids(pendingTasks) ELSE {})
                 /\ IF ok
                    THEN /\ \E leads \in HandlerBatches[agent] : OnHandlerSuccess(leads)
                         /\ UNCHANGED failed
                    ELSE /\ OnHandlerError(agent)
                         /\ failed' = [failed EXCEPT ![currentTask.id] = @ + 1]
    /\ UNCHANGED <<humanApprovalRequired, currentAction, schemaInScope, submitted,
                   accepted>>
    /\ UNCHANGED <<auxVars, mergeVars, cacheVars, compVars>>

\* node linkedin_agent
executeLinkedInTask == node = "linkedin_agent" /\ AgentNode("LinkedIn")

\* node directory_agent
executeDirectoryTask == node = "directory_agent" /\ AgentNode("Directory")

\* node website_agent
executeWebsiteTask == node = "website_agent" /\ AgentNode("Website")

\* (variant: the verdict is stored the wrong way round)
VerdictStoredNegated(isValid) == ~isValid
\* the value validateLeadData caches: this.cache.set(cacheKey, isValid, 86400)
VerdictStored(isValid) == isValid

\* validateLeadData(lead) against the store c at time t: the verdict and the
\* store it leaves
validateLeadData(lead, c, t) ==
    LET key == <<"validation", ValidationKey(lead)>> IN
    IF CacheLive(c, key, t)
    THEN [ok |-> c[key].value, store |-> c]
    ELSE LET isValid == ValidateRules(lead)
         IN [ok |-> isValid,
             store |-> CacheSet(CacheAfterGet(c, key, t), key, VerdictStored(isValid),
                                ValidationTtl, t)]

\* (variant: the accepted record is pushed as it came)
MarkUnverified(lead) == lead
\* the lead validateLeads pushes for an accepted record: { ...lead, verified: true }
MarkVerified(lead) == [lead EXCEPT !.verified = TRUE]

\* one iteration of the for loop of validateLeads; acc = [valid, errs, store]
ValidateStep(acc, lead, inScope, t) ==
    IF ~inScope
    THEN \* LeadSchema is not defined: the ReferenceError lands in the inner catch
         [acc EXCEPT !.errs = Append(@, [kind |-> "lead_validation", agent |-> "none",
                                         n |-> 0])]
    ELSE IF ~SchemaAccepts(lead)
    THEN [acc EXCEPT !.errs = Append(@, [kind |-> "lead_validation", agent |-> "none",
                                         n |-> 0])]
    ELSE LET r == validateLeadData(lead, acc.store, t) IN
         IF r.ok
         THEN [valid |-> Append(acc.valid, MarkVerified(lead)), errs |-> acc.errs,
               store |-> r.store]
         ELSE [acc EXCEPT !.store = r.store]

RECURSIVE ValidateLoop(_, _, _, _, _)
ValidateLoop(leads, i, acc, inScope, t) ==
    IF i > Len(leads) THEN acc
    ELSE ValidateLoop(leads, i + 1, ValidateStep(acc, leads[i], inScope, t), inScope, t)

\* node validate_leads
validateLeads ==
    /\ node = "validate_leads"
    /\ outcome = "running"
    /\ LET r == ValidateLoop(extractedLeads, 1,
                             [valid |-> <<>>, errs |-> errors, store |-> cache],
                             schemaInScope, now)
       IN /\ extractedLeads' = r.valid
          /\ errors' = r.errs
          /\ cache' = r.store
          /\ accepted' = accepted \cup Range(r.valid)
    /\ node' = "task_router"
    /\ UNCHANGED <<currentTask, pendingTasks, completedTasks, humanApprovalRequired,
                   currentAction, retryCount, outcome, schemaInScope, submitted,
                   dispatched, failed, lastDispatch, queuedAhead>>
    /\ UNCHANGED <<auxVars, mergeVars, now, ticks, compVars>>

\* node merge_results, the edge to END and the return of executeTasks
mergeResults ==
    /\ node = "merge_results"
    /\ outcome = "running"
    /\ extractedLeads' = MergeLeads(extractedLeads)
    /\ node' = "END"
    /\ outcome' = "returned"
    /\ UNCHANGED <<currentTask, pendingTasks, completedTasks, errors,
                   humanApprovalRequired, currentAction, retryCount, schemaInScope,
                   submitted, dispatched, failed, lastDispatch, accepted, queuedAhead>>
    /\ UNCHANGED <<auxVars, mergeVars, cacheVars, compVars>>

\* (variant: a high-priority task that is not a retry is refused)
simulateHumanApprovalStrict(task, count) ==
    IF task = NoTask THEN FALSE
    ELSE IF task.priority = "low" \/ count > 0 THEN TRUE
    ELSE task.priority # "high"

\* simulateHumanApproval
simulateHumanApproval(task, count) ==
    IF task = NoTask THEN FALSE
    ELSE IF task.priority = "low" \/ count > 0 THEN TRUE
    ELSE IF task.priority = "high" THEN TRUE
    ELSE TRUE

\* node human_approval
handleHumanApproval ==
    /\ node = "human_approval"
    /\ outcome = "running"
    /\ humanApprovalRequired' = FALSE
    /\ IF simulateHumanApproval(currentTask, retryCount)
       THEN UNCHANGED <<errors, completedTasks, currentTask>>
       ELSE /\ errors' = Append(errors, [kind |-> "approval_denied", agent |-> "none",
                                         n |-> 0])
            /\ completedTasks' = Append(completedTasks, currentTask.id)
            /\ currentTask' = NoTask
    /\ node' = "task_router"
    /\ UNCHANGED <<pendingTasks, extractedLeads, currentAction, retryCount, outcome,
                   schemaInScope, submitted, dispatched, failed, lastDispatch, accepted,
                   queuedAhead>>
    /\ UNCHANGED <<auxVars, mergeVars, cacheVars, compVars>>

(***************************************************************************)
(* ComplianceChecker.  A URL is its hostname and its path; a robots.txt is *)
(* its list of lines, each line already cut into the directive before the  *)
(* first ":" (lower-cased) and the trimmed text after it.  A rateLimit of   *)
(* 0 stands for an absent rateLimit.                                       *)
(***************************************************************************)
RateLimitDelayDefault == 2000
ComplianceTtl == 3600
RobotsTtl == 86400
RateLimitTtl == 300
LinkedInRequiredDelay == 3000

Net == [ hX        |-> <<"x">>,
         hXcom     |-> <<"x",".","c","o","m">>,
         hFacebook |-> <<"f","a","c","e","b","o","o","k",".","c","o","m">>,
         hInsta    |-> <<"i","n","s","t","a","g","r","a","m",".","c","o","m">>,
         hTwitter  |-> <<"t","w","i","t","t","e","r",".","c","o","m">>,
         hLinkedIn |-> <<"w","w","w",".","l","i","n","k","e","d","i","n",".","c","o","m">>,
         linkedin  |-> <<"l","i","n","k","e","d","i","n",".","c","o","m">>,
         pathPrivatePage |-> <<"/","p","r","i","v","a","t","e","/","p","a","g","e">>,
         pathPublic      |-> <<"/","p","u","b","l","i","c">>,
         prefixPrivate   |-> <<"/","p","r","i","v","a","t","e">> ]

Hosts == {Net.hX, Net.hFacebook}
Urls  == [host : Hosts, path : {Net.pathPrivatePage, Net.pathPublic}]
BadUrl == [host |-> <<>>, path |-> <<>>]

Includes(str, sub) ==
    \E i \in 1..(Len(str) - Len(sub) + 1) : SubSeq(str, i, i + Len(sub) - 1) = sub

NoResult == [allowed |-> TRUE, reason |-> "none", restrictions |-> <<>>, rateLimit |-> 0]
\* error: the ComplianceError thrown, by its name and the URL its message carries
NoError  == [name |-> "none", url |-> BadUrl]
\* robots: what checkRobotsTxt gave the call (NoResult when it was not called)
NoCheck  == [url |-> BadUrl, threw |-> FALSE, cached |-> FALSE, result |-> NoResult,
             fetched |-> FALSE, failed |-> FALSE, error |-> NoError, robots |-> NoResult]

Line(f, v) == [field |-> f, value |-> v]

\* User-agent: *  /  Disallow: /private
RobotsPrivate == << Line("user-agent", <<"*">>), Line("disallow", Net.prefixPrivate) >>
Served(ok, lines) == [ok |-> ok, lines |-> lines]
\* no robots.txt (a non-success response); the file above; a block for another
\* crawler followed by one for any "bot" with a crawl delay
ServedPool ==
    { Served(FALSE, <<>>),
      Served(TRUE, RobotsPrivate),
      Served(TRUE, << Line("user-agent", <<"c","u","r","l">>), Line("disallow", <<"/">>),
                      Line("user-agent", <<"a","b","o","t">>), Line("crawl-delay", <<"5">>) >>) }

DigitValue(c) == CHOOSE n \in 0..9 : <<"0","1","2","3","4","5","6","7","8","9">>[n + 1] = c

\* parseInt(text): the leading digits; 0 also stands for NaN, which the
\* `crawlDelay || rateLimitDelay` that follows treats like 0
RECURSIVE ParseInt(_, _, _)
ParseInt(text, i, acc) ==
    IF i > Len(text) \/ text[i] \notin Digits THEN acc
    ELSE ParseInt(text, i + 1, acc * 10 + DigitValue(text[i]))

\* currentUserAgent === '*' || includes('leadgenbot') || includes('bot')
AgentApplies(agent) ==
    \/ agent = <<"*">>
    \/ Includes(agent, <<"l","e","a","d","g","e","n","b","o","t">>)
    \/ Includes(agent, <<"b","o","t">>)

\* the for loop of parseRobotsTxt; acc = [applies, disallowed, crawlDelay]
RECURSIVE RobotsLoop(_, _, _)
RobotsLoop(lines, i, acc) ==
    IF i > Len(lines) THEN acc
    ELSE LET l == lines[i] IN
         RobotsLoop(lines, i + 1,
            IF l.field = "user-agent"
            THEN [acc EXCEPT !.applies = AgentApplies(l.value)]
            ELSE IF acc.applies /\ l.field = "disallow"
            THEN [acc EXCEPT !.disallowed = Append(@, l.value)]
            ELSE IF acc.applies /\ l.field = "crawl-delay"
            THEN [acc EXCEPT !.crawlDelay = ParseInt(l.value, 1, 0) * 1000]
            ELSE acc)

\* disallowPath === '/' || path.startsWith(disallowPath)
PathDisallowed(path, rule) == rule = <<"/">> \/ StartsWith(path, rule)

parseRobotsTxt(lines, path, cfg) ==
    LET acc == RobotsLoop(lines, 1, [applies |-> FALSE, disallowed |-> <<>>, crawlDelay |-> 0])
        delay == IF acc.crawlDelay # 0 THEN acc.crawlDelay ELSE cfg.rateLimitDelay
    IN IF \E k \in 1..Len(acc.disallowed) : PathDisallowed(path, acc.disallowed[k])
       THEN [allowed |-> FALSE, reason |-> "robots", restrictions |-> <<>>, rateLimit |-> delay]
       ELSE [allowed |-> TRUE, reason |-> "none", restrictions |-> <<>>, rateLimit |-> delay]

\* (variant: a failed fetch counts as a refusal)
RobotsOnFetchFailureDenied ==
    [allowed |-> FALSE, reason |-> "robots", restrictions |-> <<>>, rateLimit |-> 0]
\* the catch block of checkRobotsTxt: { allowed: true }
RobotsOnFetchFailure == NoResult

\* checkRobotsTxt(url) with the store c at time t; `fails` says whether the fetch
\* throws (network error, timeout), `served` is what the host answers otherwise.
\* Gives the robots result and the store left behind.
checkRobotsTxt(url, c, t, cfg, fails, served) ==
    LET key == <<"robots", url.host>> IN
    IF CacheLive(c, key, t)
    THEN [result |-> c[key].value, store |-> c, fetched |-> FALSE]
    ELSE LET c1 == CacheAfterGet(c, key, t) IN
         IF fails
         THEN [result |-> RobotsOnFetchFailure, store |-> c1, fetched |-> TRUE]
         ELSE LET r == IF served.ok THEN parseRobotsTxt(served.lines, url.path, cfg)
                       ELSE NoResult
              IN [result |-> r, store |-> CacheSet(c1, key, r, RobotsTtl, t), fetched |-> TRUE]

RestrictedDomains == {Net.hFacebook, Net.hInsta, Net.hTwitter, Net.hXcom}
KnownToSViolations == {Net.hFacebook, Net.hInsta, Net.hTwitter}

checkDomainRules(domain) ==
    IF domain \in RestrictedDomains
    THEN [allowed |-> FALSE, reason |-> "domain", restrictions |-> <<>>, rateLimit |-> 0]
    ELSE IF Includes(domain, Net.linkedin)
    THEN [allowed |-> TRUE, reason |-> "none", restrictions |-> <<"max_requests_per_hour">>,
          rateLimit |-> LinkedInRequiredDelay]
    ELSE NoResult

checkTermsOfService(domain) ==
    IF domain \in KnownToSViolations
    THEN [allowed |-> FALSE, reason |-> "tos", restrictions |-> <<>>, rateLimit |-> 0]
    ELSE NoResult

\* (variant: each check assigns the flag, so the last check decides)
CombineChecksLastWins(robotsOn, robots, domainRes, tos) ==
    [allowed |-> tos.allowed,
     reason |-> IF tos.allowed THEN "none" ELSE tos.reason,
     restrictions |-> IF tos.allowed THEN <<>> ELSE <<"terms_of_service">>,
     rateLimit |-> IF robotsOn THEN robots.rateLimit ELSE 0]

\* the part of checkCompliance behind the cache miss: combine the three checks
CombineChecks(robotsOn, robots, domainRes, tos) ==
    LET r0 == NoResult
        r1 == IF robotsOn /\ ~robots.allowed
              THEN [r0 EXCEPT !.allowed = FALSE, !.reason = robots.reason,
                              !.restrictions = Append(@, "robots.txt")]
              ELSE r0
        r2 == IF robotsOn /\ robots.rateLimit # 0
              THEN [r1 EXCEPT !.rateLimit = robots.rateLimit] ELSE r1
        r3 == IF ~domainRes.allowed
              THEN [r2 EXCEPT !.allowed = FALSE, !.reason = domainRes.reason,
                              !.restrictions = Append(@, "domain_rules")]
              ELSE r2
        r4 == IF ~tos.allowed
              THEN [r3 EXCEPT !.allowed = FALSE, !.reason = tos.reason,
                              !.restrictions = Append(@, "terms_of_service")]
              ELSE r3
    IN r4

\* (variant: the catch block stores a decision before it rethrows)
StoreOnThrowCached(c, url, t) ==
    CacheSet(c, <<"compliance", url.host>>, NoResult, ComplianceTtl, t)
\* the store the catch block of checkCompliance leaves: it only logs and rethrows
StoreOnThrow(c, url, t) == c

\* checkCompliance(url)
checkCompliance(url, fails) ==
    IF url = BadUrl
    THEN \* new URL(url) throws; the catch rethrows a ComplianceError
         /\ lastCheck' = [NoCheck EXCEPT !.url = url, !.threw = TRUE,
                                         !.error = [name |-> "ComplianceError", url |-> url]]
         /\ cache' = StoreOnThrow(cache, url, now)
         /\ UNCHANGED fetchFailed
    ELSE LET key == <<"compliance", url.host>> IN
         IF CacheLive(cache, key, now)
         THEN /\ lastCheck' = [NoCheck EXCEPT !.url = url, !.cached = TRUE,
                                              !.result = cache[key].value]
              /\ UNCHANGED <<cache, fetchFailed>>
         ELSE LET c1 == CacheAfterGet(cache, key, now)
                  rob == IF config.respectRobotsTxt
                         THEN checkRobotsTxt(url, c1, now, config, fails,
                                             robotsServed[url.host])
                         ELSE [result |-> NoResult, store |-> c1, fetched |-> FALSE]
                  res == CombineChecks(config.respectRobotsTxt, rob.result,
                                       checkDomainRules(url.host),
                                       checkTermsOfService(url.host))
              IN /\ cache' = CacheSet(rob.store, key, res, ComplianceTtl, now)
                 /\ fetchFailed' = (fetchFailed \/ (rob.fetched /\ fails))
                 /\ lastCheck' = [NoCheck EXCEPT !.url = url, !.result = res,
                                                 !.fetched = rob.fetched,
                                                 !.failed = (rob.fetched /\ fails),
                                                 !.robots = rob.result]

CheckCompliance ==
    /\ \E url \in Urls \cup {BadUrl} : \E fails \in BOOLEAN : checkCompliance(url, fails)
    /\ UNCHANGED <<config, robotsServed, now, ticks, runVars, mergeVars, auxVars>>

\* the clock moves on: by a second, by an hour, by a day
Tick ==
    /\ ticks < MaxClock
    /\ \E d \in {1, ComplianceTtl, RobotsTtl} : now' = now + d
    /\ ticks' = ticks + 1
    /\ UNCHANGED <<cache, runVars, mergeVars, compVars, auxVars>>

(***************************************************************************)
(* Specification of one run of executeTasks.                               *)
(***************************************************************************)
NoEntry  == [value |-> 0, expires |-> 0]
NoOp     == [op |-> "none", key |-> <<>>, at |-> 0, result |-> 0, wait |-> 0, before |-> NoEntry]
NoCancel == [requested |-> FALSE, dispatched |-> 0, inFlight |-> FALSE]
NoFlight == [open |-> <<>>, done |-> <<>>]
\* nothing scored yet
NoScore == [agent |-> "none", kind |-> "none", fields |-> {}, rejected |-> {},
            confidence |-> 0, before |-> 0]
\* no navigateWithCompliance call made yet
NoCall == [url |-> BadUrl, outcome |-> "none", allowed |-> FALSE, raised |-> FALSE,
           slept |-> 0, stamped |-> FALSE]
NoNav == [calls |-> 0, visits |-> <<>>, last |-> NoCall]
\* null in a channel that holds a URL, and in one that holds a list
NullUrl == <<"<null>">>
Null == [isNull |-> TRUE, items |-> <<>>]
NoFlowError == [kind |-> "none", url |-> NullUrl]
\* nothing asked of the user yet
NoAnswer == [batch |-> Null, verdict |-> "none"]
NoTrail == [navSteps |-> 0, attempts |-> <<>>, extracted |-> <<>>, approved |-> <<>>,
            rejected |-> <<>>, last |-> NoAnswer, csv |-> <<>>]
FlowIdle ==
    /\ step = "idle" /\ search_results = <<>> /\ processed_urls = <<>>
    /\ current_url = NullUrl /\ extracted_data = Null /\ user_approved_data = Null
    /\ final_output = <<>> /\ error = NoFlowError /\ extractionCache = <<>>
    /\ trail = NoTrail
CoreIdle ==
    /\ statistics = [hits |-> 0, misses |-> 0, sets |-> 0]
    /\ opLog = [gets |-> 0, liveGets |-> 0, sets |-> 0, ops |-> 0]
    /\ written = <<>> /\ lastOp = NoOp
    /\ verdicts = <<>> /\ cancel = NoCancel /\ created = <<>> /\ flight = NoFlight
AuxIdle == CoreIdle /\ scored = NoScore /\ nav = NoNav /\ FlowIdle
MergeIdle == mergeIn = <<>> /\ mergeOut = <<>> /\ mergeTwice = <<>> /\ mergePc = "idle"
CacheFresh == cache = EmptyCache /\ now = 0 /\ ticks = 0
CompIdle ==
    /\ config = [respectRobotsTxt |-> TRUE, rateLimitDelay |-> RateLimitDelayDefault]
    /\ robotsServed = <<>> /\ fetchFailed = FALSE /\ lastCheck = NoCheck

Init == InitRun /\ MergeIdle /\ CacheFresh /\ CompIdle /\ AuxIdle

Next ==
    \/ routeTask
    \/ executeLinkedInTask
    \/ executeDirectoryTask
    \/ executeWebsiteTask
    \/ validateLeads
    \/ mergeResults

Spec == Init /\ [][Next]_vars

\* the graph runs a node whenever one is due
FairSpec == Init /\ [][Next]_vars /\ WF_vars(Next)

(***************************************************************************)
(* Properties of a run of executeTasks.                                    *)
(***************************************************************************)
TotalDispatched == SumOver(dispatched, DOMAIN dispatched)

DispatchBound ==
    Len(submitted) + SumOver([i \in Ids(submitted) |-> submitted[i].retryAttempts], Ids(submitted))

\* number of places (pending queue, current slot, completed list) holding task i
Places(i) ==
    Cardinality({k \in 1..Len(pendingTasks) : pendingTasks[k].id = i})
        + (IF currentTask.id = i THEN 1 ELSE 0)
        + Count(completedTasks, i)

\* C1: a task with initial retry budget N whose handler fails on every dispatch
\* is dispatched exactly N+1 times, and once it is completed its id is in the
\* completed list exactly once.
C1_FailingTaskDispatchedBudgetPlusOne ==
    \A i \in Ids(submitted) :
        (Count(completedTasks, i) >= 1 /\ failed[i] = dispatched[i])
            => (dispatched[i] = submitted[i].retryAttempts + 1 /\ Count(completedTasks, i) = 1)

\* C2: every run reaches merge_results and then END (executeTasks returns), having
\* run at most (initial task count + sum of the initial retry budgets) dispatches.
C2_TerminatesWithinDispatchBound ==
    /\ <>(node = "END" /\ outcome = "returned")
    /\ [](TotalDispatched <= DispatchBound)

C2_Witness ==
    /\ node = "END" /\ outcome = "returned"
    /\ \E i \in Ids(submitted) : failed[i] >= 2 /\ dispatched[i] = submitted[i].retryAttempts + 1
    /\ TotalDispatched = DispatchBound

\* C3: every submitted task id is in exactly one of the pending queue, the
\* current-task slot and the completed list.
C3_TaskInExactlyOnePlace == \A i \in Ids(submitted) : Places(i) = 1

C3_Witness ==
    /\ currentTask # NoTask
    /\ \E k \in 1..Len(pendingTasks) :
          pendingTasks[k].retryAttempts < submitted[pendingTasks[k].id].retryAttempts

\* C4: a handler failure never aborts the run: right after a failed dispatch the
\* task has been requeued (a copy at the tail of the queue) or completed, the run
\* never ends by raising, and a finished run has returned.
C4_HandlerFailureNeverAborts ==
    /\ outcome # "raised"
    /\ (node = "END") => (outcome = "returned")
    /\ (node = "validate_leads" /\ ~lastDispatch.ok) =>
          \/ /\ Len(pendingTasks) > 0
             /\ pendingTasks[Len(pendingTasks)] = RetryCopy(lastDispatch.task)
             /\ Count(completedTasks, lastDispatch.task.id) = 0
          \/ /\ Len(completedTasks) > 0
             /\ completedTasks[Len(completedTasks)] = lastDispatch.task.id

C4_Witness ==
    /\ outcome = "returned"
    /\ Len(submitted) >= 2
    /\ \A i \in Ids(submitted) : failed[i] = dispatched[i] /\ failed[i] >= 1
    /\ \E i \in Ids(submitted) : failed[i] >= 2

NoDuplicateKeys(leads) ==
    \A a, b \in 1..Len(leads) : Identifier(leads[a]) = Identifier(leads[b]) => a = b

NonIncreasingConfidence(leads) ==
    \A a \in 1..(Len(leads) - 1) : leads[a].confidence >= leads[a + 1].confidence

\* C5: the list executeTasks returns has no two records with the same identity
\* key and is ordered by non-increasing confidence.
C5_ReturnedListUniqueAndSorted ==
    outcome = "returned" =>
        (NoDuplicateKeys(extractedLeads) /\ NonIncreasingConfidence(extractedLeads))

C5_Witness ==
    /\ outcome = "returned"
    /\ Len(extractedLeads) >= 2
    /\ \E a, b \in accepted : a # b /\ Identifier(a) = Identifier(b)
    /\ \E a \in 1..(Len(extractedLeads) - 1) :
          extractedLeads[a].confidence > extractedLeads[a + 1].confidence

\* C6: every returned record was accepted by validate_leads and has verified =
\* true; a record in the accumulator is verified only if validate_leads accepted
\* it, and merge_results only ever sees accepted records.
C6_ReturnedRecordsValidated ==
    /\ \A k \in 1..Len(extractedLeads) :
          extractedLeads[k].verified => extractedLeads[k] \in accepted
    /\ (node = "merge_results" \/ outcome = "returned") =>
          \A k \in 1..Len(extractedLeads) :
              extractedLeads[k].verified /\ extractedLeads[k] \in accepted

C6_Witness ==
    /\ outcome = "returned"
    /\ Len(extractedLeads) >= 2

(***************************************************************************)
(* merge on its own: removeDuplicateLeads followed by the confidence sort, *)
(* applied to an arbitrary list of validated records, and applied again to *)
(* its own result.                                                         *)
(***************************************************************************)
Rec == [ m1 |-> MarkVerified(MkLead(Txt.nAnn,  Txt.eAnn, Undef,      Txt.cAcme, 50)),
         m2 |-> MarkVerified(MkLead(Txt.nAnnB, Txt.eAnn, Undef,      Txt.cAcme, 90)),
         m3 |-> MarkVerified(MkLead(Txt.nAnn,  Txt.eAnn, Txt.pGood,  Undef,     90)),
         m4 |-> MarkVerified(MkLead(Txt.nBo,   Undef,    Txt.pOther, Undef,     90)),
         m5 |-> MarkVerified(MkLead(Txt.nCy,   Undef,    Undef,      Txt.cAcme, 50)),
         m6 |-> MarkVerified(MkLead(Txt.nCy,   Undef,    Undef,      Undef,     70)) ]

MergePool == {Rec[k] : k \in DOMAIN Rec}

RunIdle ==
    /\ node = "idle" /\ currentTask = NoTask /\ pendingTasks = <<>>
    /\ completedTasks = <<>> /\ extractedLeads = <<>> /\ errors = <<>>
    /\ humanApprovalRequired = FALSE /\ currentAction = "none" /\ retryCount = 0
    /\ outcome = "idle" /\ schemaInScope = TRUE /\ submitted = <<>>
    /\ dispatched = <<>> /\ failed = <<>> /\ lastDispatch = NoDispatch
    /\ accepted = {} /\ queuedAhead = <<>>

InitMerge ==
    /\ mergeIn \in UNION { [1..n -> MergePool] : n \in 0..MaxMergeLen }
    /\ mergeOut = <<>> /\ mergeTwice = <<>> /\ mergePc = "ready"
    /\ RunIdle /\ CacheFresh /\ CompIdle /\ AuxIdle

\* merge(x)
MergeOnce ==
    /\ mergePc = "ready"
    /\ mergeOut' = MergeLeads(mergeIn)
    /\ mergePc' = "once"
    /\ UNCHANGED <<mergeIn, mergeTwice, runVars, cacheVars, compVars, auxVars>>

\* merge(merge(x))
MergeAgain ==
    /\ mergePc = "once"
    /\ mergeTwice' = MergeLeads(mergeOut)
    /\ mergePc' = "twice"
    /\ UNCHANGED <<mergeIn, mergeOut, runVars, cacheVars, compVars, auxVars>>

NextMerge == MergeOnce \/ MergeAgain

SpecMerge == InitMerge /\ [][NextMerge]_vars

KeysOf(leads) == {Identifier(leads[i]) : i \in 1..Len(leads)}

MaxConfidence(leads, key) ==
    CHOOSE c \in {leads[i].confidence : i \in {j \in 1..Len(leads) : Identifier(leads[j]) = key}} :
        \A i \in 1..Len(leads) : Identifier(leads[i]) = key => leads[i].confidence <= c

\* index of the earliest record of `leads` with this key and its highest confidence
WinnerIndex(leads, key) ==
    CHOOSE i \in 1..Len(leads) :
        /\ Identifier(leads[i]) = key
        /\ leads[i].confidence = MaxConfidence(leads, key)
        /\ \A j \in 1..(i - 1) :
              ~(Identifier(leads[j]) = key /\ leads[j].confidence = MaxConfidence(leads, key))

\* index of the first record of `leads` with this key
FirstIndex(leads, key) ==
    CHOOSE i \in 1..Len(leads) :
        /\ Identifier(leads[i]) = key
        /\ \A j \in 1..(i - 1) : Identifier(leads[j]) # key

\* C7: for every identity key of the input the output holds exactly one record
\* with that key, namely the earliest input record of highest confidence with
\* that key; the output has as many records as the input has distinct keys.
C7_MergeKeepsBestPerKey ==
    mergePc \in {"once", "twice"} =>
        /\ Len(mergeOut) = Cardinality(KeysOf(mergeIn))
        /\ \A key \in KeysOf(mergeIn) :
              /\ Cardinality({k \in 1..Len(mergeOut) : Identifier(mergeOut[k]) = key}) = 1
              /\ \E k \in 1..Len(mergeOut) : mergeOut[k] = mergeIn[WinnerIndex(mergeIn, key)]

C7_Witness ==
    /\ mergePc = "once"
    /\ mergeIn = <<Rec.m1, Rec.m2, Rec.m3>>
    /\ mergeOut = <<Rec.m2>>

\* C8: merge(merge(x)) = merge(x), order included.
C8_MergeIdempotent == mergePc = "twice" => mergeTwice = mergeOut

C8_Witness ==
    /\ mergePc = "twice"
    /\ mergeOut # mergeIn
    /\ Len(mergeOut) >= 2
    /\ \E a \in 1..(Len(mergeOut) - 1) : mergeOut[a].confidence = mergeOut[a + 1].confidence

\* C9 as claimed: two output records of equal confidence stand in the order
\* they had in the input list.
C9_EqualConfidenceKeepsInputOrder ==
    mergePc \in {"once", "twice"} =>
        \A a, b \in 1..Len(mergeOut) :
            (a < b /\ mergeOut[a].confidence = mergeOut[b].confidence) =>
                WinnerIndex(mergeIn, Identifier(mergeOut[a]))
                    < WinnerIndex(mergeIn, Identifier(mergeOut[b]))

\* C9 amended: two output records of equal confidence stand in the order in
\* which their identity keys first occur in the input list (a replacing record
\* takes the place of the record it replaces).
C9_EqualConfidenceKeepsFirstOccurrenceOrder ==
    mergePc \in {"once", "twice"} =>
        \A a, b \in 1..Len(mergeOut) :
            (a < b /\ mergeOut[a].confidence = mergeOut[b].confidence) =>
                FirstIndex(mergeIn, Identifier(mergeOut[a]))
                    < FirstIndex(mergeIn, Identifier(mergeOut[b]))

C9_Witness ==
    /\ mergePc = "once"
    /\ mergeIn = <<Rec.m1, Rec.m4, Rec.m2>>
    /\ mergeOut = <<Rec.m2, Rec.m4>>

(***************************************************************************)
(* Specification of the compliance checker under any sequence of calls.    *)
(***************************************************************************)
InitCompliance ==
    /\ config \in [respectRobotsTxt : BOOLEAN, rateLimitDelay : {RateLimitDelayDefault}]
    /\ robotsServed \in [Hosts -> ServedPool]
    /\ fetchFailed = FALSE
    /\ lastCheck = NoCheck
    /\ CacheFresh /\ RunIdle /\ MergeIdle /\ AuxIdle

NextCompliance == CheckCompliance \/ Tick

SpecCompliance == InitCompliance /\ [][NextCompliance]_vars

\* C10: with robots checking on and a robots.txt on host x whose applying block
\* disallows /private (x on no restricted list, no robots fetch ever failing),
\* every checkCompliance on x gives allowed = false for a path that starts with
\* /private and allowed = true for any other path, in whatever order the calls come.
C10_PrivatePrefixDisallowedInAnyOrder ==
    ( /\ config.respectRobotsTxt
      /\ robotsServed[Net.hX] = Served(TRUE, RobotsPrivate)
      /\ ~fetchFailed
      /\ lastCheck # NoCheck /\ ~lastCheck.threw
      /\ lastCheck.url.host = Net.hX )
    => (lastCheck.result.allowed <=> ~StartsWith(lastCheck.url.path, Net.prefixPrivate))

(***************************************************************************)
(* CacheManager called directly, and ComplianceChecker.checkRateLimit,     *)
(* which keeps its last-request timestamps in the same store.  Values are  *)
(* numbers; 0 stands for undefined (a miss).                               *)
(***************************************************************************)
\* Date.now() in milliseconds; the clock of the model starts one second after
\* the epoch, so that a timestamp is never 0
DateNow(t) == (t + 1) * 1000

PageKey == <<"page", <<"k">>>>
RateKey(domain) == <<"ratelimit", domain>>

\* the 'set' event handler: statistics.sets++
StatsAfterSet(st) == [st EXCEPT !.sets = @ + 1]
\* (variant: a miss is not counted)
StatsAfterGetHitsOnly(st, found) == IF found THEN [st EXCEPT !.hits = @ + 1] ELSE st
\* CacheManager.get: value !== undefined ? hits++ : misses++
StatsAfterGet(st, found) ==
    IF found THEN [st EXCEPT !.hits = @ + 1] ELSE [st EXCEPT !.misses = @ + 1]

\* (variant: an entry past its time is handed out as long as it is in the store)
CacheReadStale(c, key, t) == IF key \in DOMAIN c THEN c[key].value ELSE 0
\* what NodeCache.get hands back
CacheRead(c, key, t) == IF CacheLive(c, key, t) THEN c[key].value ELSE 0

\* the history of calls: one more call, which may be a get (that found a live
\* value or not) and may have made a set
LogCall(log, isGet, found, isSet) ==
    [gets     |-> log.gets + (IF isGet THEN 1 ELSE 0),
     liveGets |-> log.liveGets + (IF isGet /\ found THEN 1 ELSE 0),
     sets     |-> log.sets + (IF isSet THEN 1 ELSE 0),
     ops      |-> log.ops + 1]

\* the history of writes after set(key, v, ttl) at time t
WriteLogged(w, key, v, ttl, t) ==
    [k \in DOMAIN w \cup {key} |->
        IF k = key THEN [value |-> v, at |-> t, ttl |-> ttl] ELSE w[k]]

\* the variables a direct cache call leaves alone
cacheCallFrame == <<now, ticks, verdicts, cancel, created, flight, sideVars, runVars, mergeVars,
                    compVars>>

\* CacheManager.set(key, value, ttl); ttl 0 is a call without ttl
CacheManagerSet ==
    /\ opLog.ops < MaxOps
    /\ \E v \in {1, 2}, ttl \in {0, 1} :
         /\ cache' = CacheSet(cache, PageKey, v, ttl, now)
         /\ written' = WriteLogged(written, PageKey, v, ttl, now)
         /\ lastOp' = [NoOp EXCEPT !.op = "set", !.key = PageKey, !.at = now, !.result = 1]
    /\ statistics' = StatsAfterSet(statistics)
    /\ opLog' = LogCall(opLog, FALSE, FALSE, TRUE)
    /\ UNCHANGED cacheCallFrame

\* CacheManager.get(key)
CacheManagerGet ==
    /\ opLog.ops < MaxOps
    /\ \E key \in {PageKey, RateKey(Net.hX)} :
         LET value == CacheRead(cache, key, now) IN
         /\ cache' = CacheAfterGet(cache, key, now)
         /\ statistics' = StatsAfterGet(statistics, value # 0)
         /\ opLog' = LogCall(opLog, TRUE, CacheLive(cache, key, now), FALSE)
         /\ lastOp' = [NoOp EXCEPT !.op = "get", !.key = key, !.at = now, !.result = value]
    /\ UNCHANGED <<written, cacheCallFrame>>

\* CacheManager.has(key): NodeCache.has tests the entry the way get does
CacheManagerHas ==
    /\ opLog.ops < MaxOps
    /\ \E key \in {PageKey, RateKey(Net.hX)} :
         /\ cache' = CacheAfterGet(cache, key, now)
         /\ lastOp' = [NoOp EXCEPT !.op = "has", !.key = key, !.at = now,
                                   !.result = IF CacheRead(cache, key, now) # 0 THEN 1 ELSE 0]
    /\ opLog' = LogCall(opLog, FALSE, FALSE, FALSE)
    /\ UNCHANGED <<statistics, written, cacheCallFrame>>

\* CacheManager.delete(key)
CacheManagerDelete ==
    /\ opLog.ops < MaxOps
    /\ \E key \in {PageKey, RateKey(Net.hX)} :
         /\ cache' = [k \in DOMAIN cache \ {key} |-> cache[k]]
         /\ written' = [k \in DOMAIN written \ {key} |-> written[k]]
         /\ lastOp' = [NoOp EXCEPT !.op = "delete", !.key = key, !.at = now,
                                   !.result = IF key \in DOMAIN cache THEN 1 ELSE 0]
    /\ opLog' = LogCall(opLog, FALSE, FALSE, FALSE)
    /\ UNCHANGED <<statistics, cacheCallFrame>>

\* CacheManager.clear(): flushAll
CacheManagerClear ==
    /\ opLog.ops < MaxOps
    /\ cache' = EmptyCache
    /\ written' = <<>>
    /\ lastOp' = [NoOp EXCEPT !.op = "clear", !.at = now]
    /\ opLog' = LogCall(opLog, FALSE, FALSE, FALSE)
    /\ UNCHANGED <<statistics, cacheCallFrame>>

\* the periodic pass of NodeCache (checkperiod): entries past their time go
CheckPeriod ==
    /\ \E k \in DOMAIN cache : ~CacheLive(cache, k, now)
    /\ cache' = [k \in {j \in DOMAIN cache : CacheLive(cache, j, now)} |-> cache[k]]
    /\ UNCHANGED <<statistics, opLog, written, lastOp, cacheCallFrame>>

\* (variant: a refused call also stamps the current time)
RateStoreOnRefusalStamped(c, key, t) == CacheSet(c, key, DateNow(t), RateLimitTtl, t)
\* the store a refused checkRateLimit leaves: only the get has touched it
RateStoreOnRefusal(c, key, t) == CacheAfterGet(c, key, t)

\* ComplianceChecker.checkRateLimit(domain)
checkRateLimit(domain) ==
    LET key == RateKey(domain)
        lastRequest == CacheRead(cache, key, now)
        before == IF CacheLive(cache, key, now) THEN cache[key] ELSE NoEntry
        timeSinceLastRequest == DateNow(now) - lastRequest
        requiredDelay == config.rateLimitDelay
        stats1 == StatsAfterGet(statistics, lastRequest # 0)
    IN IF lastRequest # 0 /\ timeSinceLastRequest < requiredDelay
       THEN /\ cache' = RateStoreOnRefusal(cache, key, now)
            /\ statistics' = stats1
            /\ opLog' = LogCall(opLog, TRUE, CacheLive(cache, key, now), FALSE)
            /\ lastOp' = [op |-> "rate", key |-> key, at |-> now, result |-> 0,
                          wait |-> requiredDelay - timeSinceLastRequest, before |-> before]
            /\ UNCHANGED written
       ELSE /\ cache' = CacheSet(CacheAfterGet(cache, key, now), key, DateNow(now),
                                 RateLimitTtl, now)
            /\ statistics' = StatsAfterSet(stats1)
            /\ opLog' = LogCall(opLog, TRUE, CacheLive(cache, key, now), TRUE)
            /\ written' = WriteLogged(written, key, DateNow(now), RateLimitTtl, now)
            /\ lastOp' = [op |-> "rate", key |-> key, at |-> now, result |-> 1,
                          wait |-> 0, before |-> before]

CheckRateLimit ==
    /\ opLog.ops < MaxOps
    /\ checkRateLimit(Net.hX)
    /\ UNCHANGED cacheCallFrame

InitCache ==
    /\ RunIdle /\ MergeIdle /\ CacheFresh /\ AuxIdle
    /\ config \in [respectRobotsTxt : {TRUE}, rateLimitDelay : {1000, RateLimitDelayDefault}]
    /\ robotsServed = <<>> /\ fetchFailed = FALSE /\ lastCheck = NoCheck

NextCache ==
    \/ CacheManagerSet
    \/ CacheManagerGet
    \/ CacheManagerHas
    \/ CacheManagerDelete
    \/ CacheManagerClear
    \/ CheckPeriod
    \/ CheckRateLimit
    \/ Tick

SpecCache == InitCache /\ [][NextCache]_vars

\* C11: checkRateLimit(domain): when a last-request timestamp exists and less
\* than the configured delay has passed since, the call gives allowed = false
\* with waitTime the remaining wait (0 < waitTime <= delay) and the stored
\* timestamp stays as it was; otherwise it gives allowed = true and the stored
\* timestamp is the time of the call.  (The store is looked at before the clock
\* moves on from the call.)
C11_RateLimitRefusesWithinDelay ==
    lastOp.op = "rate" =>
        LET elapsed == DateNow(lastOp.at) - lastOp.before.value
            delay == config.rateLimitDelay
        IN IF lastOp.before # NoEntry /\ elapsed < delay
           THEN /\ lastOp.result = 0
                /\ lastOp.wait = delay - elapsed
                /\ 0 < lastOp.wait /\ lastOp.wait <= delay
                /\ now = lastOp.at =>
                      (lastOp.key \in DOMAIN cache /\ cache[lastOp.key] = lastOp.before)
           ELSE /\ lastOp.result = 1
                /\ now = lastOp.at =>
                      /\ lastOp.key \in DOMAIN cache
                      /\ cache[lastOp.key].value = DateNow(lastOp.at)

C11_Witness ==
    /\ lastOp.op = "rate" /\ lastOp.result = 0
    /\ lastOp.wait < config.rateLimitDelay
    /\ statistics.sets = 1

\* C12: after set(key, v, ttl) (3600 s when no ttl is given) and no later set of
\* the key, a get before the TTL has passed gives v and has gives true; a get
\* after the TTL has passed gives nothing and has gives false, whether or not
\* the periodic pass has run; a key never set (or deleted, or cleared) gives
\* nothing.
C12_NoExpiredValueReturned ==
    lastOp.op \in {"get", "has"} =>
        IF lastOp.key \in DOMAIN written
        THEN LET w == written[lastOp.key]
                 ttl == IF w.ttl = 0 THEN DefaultTtl ELSE w.ttl
                 elapsed == lastOp.at - w.at
             IN /\ elapsed < ttl =>
                      lastOp.result = (IF lastOp.op = "get" THEN w.value ELSE 1)
                /\ elapsed > ttl => lastOp.result = 0
        ELSE lastOp.result = 0

\* a get of a key whose default TTL has passed, with no periodic pass in between
C12_Witness ==
    /\ lastOp.op = "get" /\ lastOp.key = PageKey /\ lastOp.result = 0
    /\ PageKey \in DOMAIN written
    /\ written[PageKey].ttl = 0
    /\ lastOp.at - written[PageKey].at > DefaultTtl

\* C13: hits + misses is the number of get calls, a hit being a get that found
\* a live value; sets is the number of set calls; has, delete and clear move
\* none of the three counters.
C13_CountersMatchCalls ==
    /\ statistics.hits = opLog.liveGets
    /\ statistics.hits + statistics.misses = opLog.gets
    /\ statistics.sets = opLog.sets

C13_Witness ==
    /\ statistics.hits >= 1 /\ statistics.misses >= 1 /\ statistics.sets >= 1
    /\ lastOp.op \in {"has", "delete", "clear"}

(***************************************************************************)
(* validateLeadData called over time, on records that may share a cache    *)
(* key (the key is the email, else the phone, else the name).              *)
(***************************************************************************)
\* two records with the same email, one passing the rules and one not, and a
\* record keyed by its phone
ValidatorPool ==
    { Page.ann90, Page.ann70, Page.bo70 }

\* the history of verdicts after validating `lead` at time t with verdict ok
VerdictLogged(vs, lead, ok, t) ==
    [l \in DOMAIN vs \cup {lead} |->
        IF l # lead THEN vs[l]
        ELSE IF lead \in DOMAIN vs
        THEN [vs[lead] EXCEPT !.last = ok, !.lastAt = t]
        ELSE [first |-> ok, firstAt |-> t, last |-> ok, lastAt |-> t]]

\* one call of validateLeadData(lead)
ValidateLeadData ==
    /\ \E lead \in ValidatorPool :
         LET r == validateLeadData(lead, cache, now) IN
         /\ cache' = r.store
         /\ verdicts' = VerdictLogged(verdicts, lead, r.ok, now)
    /\ UNCHANGED <<now, ticks, statistics, opLog, written, lastOp, cancel, created, flight, sideVars,
                   runVars, mergeVars, compVars>>

\* the clock moves on: by an hour, by a second less than a day, by a day
ValidatorTick ==
    /\ ticks < MaxClock
    /\ \E d \in {ComplianceTtl, ValidationTtl - 1, ValidationTtl} : now' = now + d
    /\ ticks' = ticks + 1
    /\ UNCHANGED <<cache, runVars, mergeVars, compVars, auxVars>>

InitValidator == RunIdle /\ MergeIdle /\ CacheFresh /\ CompIdle /\ AuxIdle

NextValidator == ValidateLeadData \/ ValidatorTick

SpecValidator == InitValidator /\ [][NextValidator]_vars

\* C14: a record validated again less than 24 hours after its first validation
\* (the cache never cleared) gets the verdict of its first validation, whatever
\* other records were validated in between.
C14_SameTripleSameVerdict ==
    \A lead \in DOMAIN verdicts :
        (verdicts[lead].lastAt - verdicts[lead].firstAt < ValidationTtl)
            => verdicts[lead].last = verdicts[lead].first

(***************************************************************************)
(* Failures inside the compliance checker.                                 *)
(***************************************************************************)
\* C15: a checkCompliance whose robots.txt fetch fails (network error, timeout)
\* or gets a non-success response does not raise, and its decision is the one
\* the domain rules and the terms-of-service check give by themselves.
C15_RobotsFetchFailureNotFatal ==
    (lastCheck.fetched /\ (lastCheck.failed \/ ~robotsServed[lastCheck.url.host].ok))
        => /\ ~lastCheck.threw
           /\ lastCheck.result = CombineChecks(FALSE, NoResult,
                                               checkDomainRules(lastCheck.url.host),
                                               checkTermsOfService(lastCheck.url.host))

\* a failed fetch on a host the domain rules refuse
C15_Witness ==
    /\ lastCheck.fetched /\ lastCheck.failed
    /\ robotsServed[lastCheck.url.host].ok
    /\ ~lastCheck.result.allowed

\* C16: a checkCompliance that fails (the URL cannot be parsed) raises a
\* ComplianceError naming the URL, gives no decision, and leaves the cache as
\* it was.
C16_FailureRaisesAndCachesNothing ==
    /\ [](lastCheck.threw =>
            /\ lastCheck.error = [name |-> "ComplianceError", url |-> lastCheck.url]
            /\ lastCheck.result = NoResult /\ ~lastCheck.cached)
    /\ [][lastCheck'.threw => cache' = cache]_vars

\* a failing call made once earlier calls have filled the cache
C16_Witness ==
    /\ lastCheck.threw
    /\ lastCheck.url = BadUrl
    /\ cache # EmptyCache

(***************************************************************************)
(* A run whose caller asks for cancellation (or whose deadline passes)     *)
(* while it is under way.  executeTasks takes the task list and nothing    *)
(* else, and no node reads a signal or a deadline; the request is recorded *)
(* here together with the number of handler calls made by then and whether *)
(* a task had been handed to a handler that has yet to return.             *)
(***************************************************************************)
RequestCancel ==
    /\ outcome = "running"
    /\ ~cancel.requested
    /\ cancel' = [requested  |-> TRUE,
                  dispatched |-> TotalDispatched,
                  inFlight   |-> node \in {"linkedin_agent", "directory_agent",
                                           "website_agent"}]
    /\ UNCHANGED <<statistics, opLog, written, lastOp, verdicts, created, flight, sideVars,
                   runVars, mergeVars, cacheVars, compVars>>

NextCancel == Next \/ RequestCancel

SpecCancel == Init /\ [][NextCancel]_vars

\* C17: once cancellation has been requested, no task is popped and handed to
\* a handler any more; only a handler that already had its task may still run.
C17_NoDispatchAfterCancel ==
    cancel.requested =>
        TotalDispatched <= cancel.dispatched + (IF cancel.inFlight THEN 1 ELSE 0)

(***************************************************************************)
(* The task factory helpers.  The returned object is what the object       *)
(* literal holds: an id made of a prefix and Date.now(), the type, the     *)
(* priority, and no retryAttempts (<<>> stands for the absent field, <<n>> *)
(* for a field holding n); nothing parses it with TaskConfigSchema.        *)
(***************************************************************************)
FactoryTask(prefix, type, priority, t) ==
    [id |-> <<prefix, DateNow(t)>>, type |-> type, priority |-> priority,
     retryAttempts |-> <<>>]

\* the variables a factory call leaves alone
factoryFrame == <<statistics, opLog, written, lastOp, verdicts, cancel, flight, sideVars,
                  runVars, mergeVars, cacheVars, compVars>>

createLinkedInSearchTask ==
    /\ Len(created) < MaxCreated
    /\ created' = Append(created, FactoryTask("linkedin-search", "linkedin_search",
                                              "medium", now))
    /\ UNCHANGED factoryFrame

createDirectorySearchTask ==
    /\ Len(created) < MaxCreated
    /\ created' = Append(created, FactoryTask("directory-search", "directory_scan",
                                              "medium", now))
    /\ UNCHANGED factoryFrame

createWebsiteExtractionTask ==
    /\ Len(created) < MaxCreated
    /\ created' = Append(created, FactoryTask("website-extraction", "website_extraction",
                                              "low", now))
    /\ UNCHANGED factoryFrame

InitFactory == RunIdle /\ MergeIdle /\ CacheFresh /\ CompIdle /\ AuxIdle

NextFactory ==
    \/ createLinkedInSearchTask
    \/ createDirectorySearchTask
    \/ createWebsiteExtractionTask
    \/ Tick

SpecFactory == InitFactory /\ [][NextFactory]_vars

\* state.currentTask.retryAttempts || 0, read off a task as the factories make it
BudgetRead(task) == IF task.retryAttempts = <<>> THEN 0 ELSE task.retryAttempts[1]

\* C18: no two tasks returned by the factory helpers carry the same id.
C18_FactoryIdsUnique ==
    \A i, j \in 1..Len(created) : created[i].id = created[j].id => i = j

\* C19: every task returned by a factory helper carries the default retry
\* budget, so that its first handler failure (retry count 0) passes the retry
\* test and the task is requeued.
C19_FactoryTaskHasDefaultBudget ==
    \A i \in 1..Len(created) :
        /\ created[i].retryAttempts = <<DefaultRetryAttempts>>
        /\ RetryTest(0, [retryAttempts |-> BudgetRead(created[i])])

(***************************************************************************)
(* The error list of a run.                                                *)
(***************************************************************************)
TotalFailed == SumOver(failed, DOMAIN failed)

DispatchErrors(errs) ==
    Cardinality({k \in 1..Len(errs) : errs[k].kind \in {"task_retry", "task_failed"}})

\* C20: no step removes or replaces a recorded error (the list before a step is
\* a prefix of the list after it); a failed dispatch appends exactly one error,
\* a retry notice or a failure notice; the list a finished run holds has one
\* such error per failed dispatch.
C20_ErrorListOnlyGrows ==
    /\ [][/\ Len(errors') >= Len(errors)
          /\ SubSeq(errors', 1, Len(errors)) = errors
          /\ (failed' # failed) =>
                /\ Len(errors') = Len(errors) + 1
                /\ errors'[Len(errors')].kind \in {"task_retry", "task_failed"}]_vars
    /\ [](outcome = "returned" => DispatchErrors(errors) = TotalFailed)

\* a finished run with a retried task, a task that failed for good, and a
\* record-level error recorded between the two
C20_Witness ==
    /\ outcome = "returned"
    /\ \E i, j, k \in 1..Len(errors) :
          /\ i < j /\ j < k
          /\ errors[i].kind = "task_retry"
          /\ errors[j].kind = "lead_validation"
          /\ errors[k].kind = "task_failed"

(***************************************************************************)
(* The verdict of validateLeadData against the rules of the record.        *)
(***************************************************************************)
\* C21: the verdict validateLeadData gives for a record is true exactly when
\* the structural rules hold for that record (email shape if present, 10 to 15
\* phone digits if present, name of 2 characters or more), whichever records
\* were validated before it.
C21_VerdictIsRulesOfRecord ==
    \A lead \in DOMAIN verdicts :
        /\ verdicts[lead].first = ValidateRules(lead)
        /\ verdicts[lead].last = ValidateRules(lead)

(***************************************************************************)
(* A run of executeTasks with time passing, in a process whose validation  *)
(* cache may hold a verdict left by an earlier run.                        *)
(***************************************************************************)
\* the store an earlier run leaves that validated Page.ann80 as this run begins
LeftByEarlierRun == validateLeadData(Page.ann80, EmptyCache, 0).store

InitTimedRun ==
    /\ InitRun /\ MergeIdle /\ CompIdle /\ AuxIdle
    /\ now = 0 /\ ticks = 0
    /\ cache \in {EmptyCache, LeftByEarlierRun}

NextTimedRun == Next \/ Tick

SpecTimedRun == InitTimedRun /\ [][NextTimedRun]_vars

DecisionHosts == {Net.hX, Net.hXcom, Net.hFacebook, Net.hLinkedIn}

InitDecision ==
    /\ config \in [respectRobotsTxt : BOOLEAN, rateLimitDelay : {RateLimitDelayDefault}]
    /\ robotsServed \in UNION { [{h} -> ServedPool] : h \in DecisionHosts }
    /\ fetchFailed = FALSE
    /\ lastCheck = NoCheck
    /\ CacheFresh /\ RunIdle /\ MergeIdle /\ AuxIdle

CheckDecision ==
    /\ \E host \in DOMAIN robotsServed :
         \E path \in {Net.pathPrivatePage, Net.pathPublic} :
            \E fails \in BOOLEAN :
               checkCompliance([host |-> host, path |-> path], fails)
    /\ UNCHANGED <<config, robotsServed, now, ticks, runVars, mergeVars, auxVars>>

NextDecision == CheckDecision \/ Tick

SpecDecision == InitDecision /\ [][NextDecision]_vars

\* a decision was computed by the last call (no cache hit, nothing thrown)
Computed == lastCheck # NoCheck /\ ~lastCheck.threw /\ ~lastCheck.cached

\* the robots check of the last call did not object (it is not made when
\* respectRobotsTxt is off)
RobotsHolds == ~config.respectRobotsTxt \/ lastCheck.robots.allowed

\* C23: a computed decision is allowed exactly when the robots check, the
\* domain-rule check and the terms-of-service check all allow; restrictions
\* holds one label per failing check, in the order of the checks; a host on
\* the terms-of-service list is never allowed.
C23_AllowedIsConjunctionOfChecks ==
    Computed =>
        LET d == checkDomainRules(lastCheck.url.host)
            t == checkTermsOfService(lastCheck.url.host)
        IN /\ lastCheck.result.allowed = (RobotsHolds /\ d.allowed /\ t.allowed)
           /\ lastCheck.result.restrictions =
                 (IF RobotsHolds THEN <<>> ELSE <<"robots.txt">>)
                    \o (IF d.allowed THEN <<>> ELSE <<"domain_rules">>)
                    \o (IF t.allowed THEN <<>> ELSE <<"terms_of_service">>)
           /\ lastCheck.url.host \in KnownToSViolations => ~lastCheck.result.allowed

\* a host on the terms-of-service list whose robots.txt allows the path
C23_Witness ==
    /\ Computed
    /\ config.respectRobotsTxt /\ lastCheck.fetched /\ ~lastCheck.failed
    /\ robotsServed[lastCheck.url.host] = Served(TRUE, RobotsPrivate)
    /\ lastCheck.robots.allowed
    /\ lastCheck.url.host \in KnownToSViolations
    /\ ~lastCheck.result.allowed

\* C24: the reason of a computed decision is the reason of the first check that
\* disallowed, in the order robots, domain rule, terms of service.
C24_ReasonOfFirstFailingCheck ==
    Computed =>
        LET d == checkDomainRules(lastCheck.url.host)
            t == checkTermsOfService(lastCheck.url.host)
        IN lastCheck.result.reason =
              (IF ~RobotsHolds THEN lastCheck.robots.reason
               ELSE IF ~d.allowed THEN d.reason
               ELSE IF ~t.allowed THEN t.reason
               ELSE "none")

\* the crawl delay (ms) the robots.txt of the last call's host gives our user
\* agent, 0 when it gives none or when no robots.txt was read
CrawlDelayRead ==
    LET served == robotsServed[lastCheck.url.host] IN
    IF config.respectRobotsTxt /\ ~lastCheck.failed /\ served.ok
    THEN RobotsLoop(served.lines, 1,
                    [applies |-> FALSE, disallowed |-> <<>>, crawlDelay |-> 0]).crawlDelay
    ELSE 0

\* C25: the rateLimit of a computed decision is the robots crawl delay if one
\* was given, else the delay of the domain rule (3000 ms for the professional
\* network), else the configured default delay; it is never absent.
C25_RateLimitMostSpecific ==
    Computed =>
        LET d == checkDomainRules(lastCheck.url.host) IN
        /\ lastCheck.result.rateLimit # 0
        /\ lastCheck.result.rateLimit =
              (IF CrawlDelayRead # 0 THEN CrawlDelayRead
               ELSE IF d.rateLimit # 0 THEN d.rateLimit
               ELSE config.rateLimitDelay)

(***************************************************************************)
(* checkCompliance as the async function it is.  A call runs up to its     *)
(* first await (the fetch of robots.txt, or the await on a check that is   *)
(* already settled) and goes on in a later turn of the event loop; calls   *)
(* started meanwhile run their own first part in between.  The look-ups of *)
(* both cache entries are in the first part, both cache.set in the second. *)
(***************************************************************************)
MaxCalls == 3          \* number of checkCompliance calls explored

\* stands in an open call for a robots.txt fetch that has not settled
Fetching == [allowed |-> TRUE, reason |-> "fetching", restrictions |-> <<>>, rateLimit |-> 0]

Returned(url, t, computed, result) ==
    [url |-> url, at |-> t, computed |-> computed, result |-> result]

\* checkCompliance(url) up to its first await
StartCheck ==
    /\ Len(flight.open) + Len(flight.done) < MaxCalls
    /\ \E host \in DOMAIN robotsServed :
         \E path \in {Net.pathPrivatePage, Net.pathPublic} :
            LET url  == [host |-> host, path |-> path]
                key  == <<"compliance", host>>
                rkey == <<"robots", host>>
                c1   == CacheAfterGet(cache, key, now)
            IN IF CacheLive(cache, key, now)
               THEN /\ flight' = [flight EXCEPT !.done =
                                     Append(@, Returned(url, now, FALSE, cache[key].value))]
                    /\ lastCheck' = [NoCheck EXCEPT !.url = url, !.cached = TRUE,
                                                    !.result = cache[key].value]
                    /\ UNCHANGED cache
               ELSE /\ flight' = [flight EXCEPT !.open = Append(@,
                          [url |-> url,
                           robots |-> IF ~config.respectRobotsTxt THEN NoResult
                                      ELSE IF CacheLive(c1, rkey, now) THEN c1[rkey].value
                                      ELSE Fetching])]
                    /\ cache' = IF config.respectRobotsTxt THEN CacheAfterGet(c1, rkey, now)
                                ELSE c1
                    /\ UNCHANGED lastCheck
    /\ UNCHANGED <<config, robotsServed, fetchFailed, now, ticks, runVars, mergeVars,
                   statistics, opLog, written, lastOp, verdicts, cancel, created, sideVars>>

\* the rest of an open call: the fetch settles (or the settled await resumes),
\* the checks are combined, the decision is stored and returned
FinishCheck ==
    /\ \E k \in 1..Len(flight.open) :
         LET call  == flight.open[k]
             url   == call.url
             fetching == call.robots = Fetching
         IN \E fails \in (IF fetching THEN BOOLEAN ELSE {FALSE}) :
            LET served == robotsServed[url.host]
                rob == IF ~fetching THEN [result |-> call.robots, store |-> cache]
                       ELSE IF fails THEN [result |-> RobotsOnFetchFailure, store |-> cache]
                       ELSE LET r == IF served.ok
                                     THEN parseRobotsTxt(served.lines, url.path, config)
                                     ELSE NoResult
                            IN [result |-> r,
                                store |-> CacheSet(cache, <<"robots", url.host>>, r,
                                                   RobotsTtl, now)]
                res == CombineChecks(config.respectRobotsTxt, rob.result,
                                     checkDomainRules(url.host),
                                     checkTermsOfService(url.host))
            IN /\ cache' = CacheSet(rob.store, <<"compliance", url.host>>, res,
                                    ComplianceTtl, now)
               /\ flight' = [open |-> SubSeq(flight.open, 1, k - 1)
                                         \o SubSeq(flight.open, k + 1, Len(flight.open)),
                             done |-> Append(flight.done, Returned(url, now, TRUE, res))]
               /\ lastCheck' = [NoCheck EXCEPT !.url = url, !.result = res,
                                               !.fetched = fetching,
                                               !.failed = (fetching /\ fails),
                                               !.robots = rob.result]
               /\ fetchFailed' = (fetchFailed \/ (fetching /\ fails))
    /\ UNCHANGED <<config, robotsServed, now, ticks, runVars, mergeVars,
                   statistics, opLog, written, lastOp, verdicts, cancel, created, sideVars>>

\* the clock; a call stays open for seconds (the fetch gives up after 5)
OverlapTick == Tick /\ (flight.open # <<>> => now' = now + 1)

NextOverlap == StartCheck \/ FinishCheck \/ OverlapTick

SpecOverlap == InitDecision /\ [][NextOverlap]_vars

\* C26: of the checkCompliance calls on a host that return within the life of a
\* computed decision (an hour from the return of the call that computed it),
\* only that first call evaluated the checks, and every later one returns the
\* same decision, also when the calls overlap.
C26_EvaluatedOncePerWindow ==
    \A i, j \in 1..Len(flight.done) :
        ( /\ i < j
          /\ flight.done[i].computed
          /\ flight.done[i].url.host = flight.done[j].url.host
          /\ flight.done[j].at - flight.done[i].at <= ComplianceTtl )
        => /\ ~flight.done[j].computed
           /\ flight.done[j].result = flight.done[i].result

(***************************************************************************)
(* The graph started on a state whose human-approval flag may be set.      *)
(* executeTasks always starts it with the flag off and no node turns it    *)
(* on, so the node human_approval is only entered from such a state.       *)
(***************************************************************************)
InitGate ==
    /\ \E approval \in BOOLEAN : \E count \in {0, 1} : InitRunWith(approval, count)
    /\ MergeIdle /\ CacheFresh /\ CompIdle /\ AuxIdle

NextGate == Next \/ handleHumanApproval

SpecGate == InitGate /\ [][NextGate]_vars

C29_GateApprovesEveryTask ==
    [][(node = "human_approval" /\ currentTask # NoTask) =>
          /\ simulateHumanApproval(currentTask, retryCount)
          /\ ~humanApprovalRequired'
          /\ errors' = errors
          /\ completedTasks' = completedTasks
          /\ currentTask' = currentTask]_vars

\* the gate has let a high-priority task through that was not a retry
C29_Witness ==
    /\ node = "task_router"
    /\ currentTask # NoTask
    /\ currentTask.priority = "high"
    /\ retryCount = 0
    /\ ~humanApprovalRequired
    /\ errors = <<>>

(***************************************************************************)
(* The order in which a run hands tasks to the handlers.                   *)
(***************************************************************************)
\* C28: task_router takes the head of the pending queue, whatever the
\* priorities; the handler runs on the task taken; a requeued task is put
\* behind everything pending; and when a task is handed to a handler again,
\* every task that was pending when it was requeued has been handed to a
\* handler in between.
C28_DispatchInQueueOrder ==
    [][/\ (node = "task_router" /\ pendingTasks # <<>>) =>
             /\ currentTask' = Head(pendingTasks)
             /\ pendingTasks' = Tail(pendingTasks)
       /\ (dispatched' # dispatched) =>
             /\ lastDispatch'.task = currentTask
             /\ queuedAhead[currentTask.id] = {}
             /\ (pendingTasks' # pendingTasks) =>
                   /\ Len(pendingTasks') = Len(pendingTasks) + 1
                   /\ SubSeq(pendingTasks', 1, Len(pendingTasks)) = pendingTasks
                   /\ pendingTasks'[Len(pendingTasks')].id = currentTask.id]_vars

\* a low-priority task failed, was requeued behind a high-priority one, and has
\* been handed to its handler a second time after that one
C28_Witness ==
    /\ Len(submitted) = 2
    /\ submitted[1].priority = "low" /\ submitted[2].priority = "high"
    /\ lastDispatch.task.id = 1
    /\ dispatched[1] = 2 /\ dispatched[2] = 1
    /\ failed[1] >= 1

\* C30: the pending queue never holds two entries with the same task id; a
\* retry copy is appended when the task that failed is no longer in the queue,
\* and it is that task with a retry budget lower by exactly one.
C30_OneQueueEntryPerTask ==
    /\ [](\A i \in Ids(submitted) :
             Cardinality({k \in 1..Len(pendingTasks) : pendingTasks[k].id = i}) <= 1)
    /\ [][Len(pendingTasks') > Len(pendingTasks) =>
             /\ \A k \in 1..Len(pendingTasks) : pendingTasks[k].id # currentTask.id
             /\ pendingTasks'[Len(pendingTasks')] =
                   [currentTask EXCEPT !.retryAttempts = currentTask.retryAttempts - 1]
             /\ pendingTasks'[Len(pendingTasks')].retryAttempts >= 0]_vars

\* the queue holds the second retry copy of a task while another task has
\* already been completed
C30_Witness ==
    /\ completedTasks # <<>>
    /\ \E k \in 1..Len(pendingTasks) :
          /\ pendingTasks[k].retryAttempts = submitted[pendingTasks[k].id].retryAttempts - 2
          /\ failed[pendingTasks[k].id] = 2

(***************************************************************************)
(* Confidence of an extracted lead (agents/linkedin.ts, directory.ts,      *)
(* website.ts).  The data scored is the set of its populated fields; a     *)
(* populated field may hold a value the test of the code turns down (an    *)
(* empty string, an email without "@", a rating of 4 or less).             *)
(***************************************************************************)
LinkedInFields  == {"name", "email", "phone", "company", "position"}
DirectoryFields == {"email", "phone", "website", "businessDescription", "accredited",
                    "rating", "verified"}
WebsiteFields   == {"name", "email", "phone", "position", "title"}
DirectoryTypes  == {"yellowPages", "yelp", "googleMaps", "bbb", "generic"}
Contexts        == {"team", "contact", "leadership", "author", "portfolio"}

Boost(test, amount) == IF test THEN amount ELSE 0

\* (variant: the sum is returned as it is)
ClampNone(confidence) == confidence
\* Math.min(confidence, 1.0)
Clamp(confidence) == IF confidence < 100 THEN confidence ELSE 100

\* LinkedInAgent.calculateConfidence(profileData); d: the fields that pass their test
LinkedInConfidence(d) ==
    Clamp(50 + Boost("name" \in d, 20) + Boost("email" \in d, 10)
             + Boost("phone" \in d, 10) + Boost("company" \in d, 10)
             + Boost("position" \in d, 10))

\* DirectoryAgent.calculateConfidence(listing, directoryType)
DirectoryConfidence(d, directoryType) ==
    Clamp(60 + Boost("email" \in d, 15) + Boost("phone" \in d, 10)
             + Boost("website" \in d, 10) + Boost("businessDescription" \in d, 5)
             + Boost(directoryType = "bbb" /\ "accredited" \in d, 10)
             + Boost(directoryType = "yelp" /\ "rating" \in d, 5)
             + Boost(directoryType = "googleMaps" /\ "verified" \in d, 10))

\* WebsiteAgent.calculateWebsiteConfidence(data, context)
calculateWebsiteConfidence(d, context) ==
    Clamp(40 + Boost("name" \in d, 20) + Boost("email" \in d, 20)
             + Boost("phone" \in d, 10)
             + Boost("position" \in d \/ "title" \in d, 10)
             + Boost(context = "leadership", 10) + Boost(context = "team", 5))

ConfidenceOf(agent, kind, d) ==
    CASE agent = "LinkedIn"  -> LinkedInConfidence(d)
      [] agent = "Directory" -> DirectoryConfidence(d, kind)
      [] agent = "Website"   -> calculateWebsiteConfidence(d, kind)

\* the data with nothing populated, scored
InitConfidence ==
    /\ \E agent \in {"LinkedIn", "Directory", "Website"} :
         \E kind \in (CASE agent = "LinkedIn"  -> {"profile"}
                        [] agent = "Directory" -> DirectoryTypes
                        [] agent = "Website"   -> Contexts) :
            scored = [agent |-> agent, kind |-> kind, fields |-> {}, rejected |-> {},
                      confidence |-> ConfidenceOf(agent, kind, {}),
                      before |-> ConfidenceOf(agent, kind, {})]
    /\ nav = NoNav /\ FlowIdle /\ CoreIdle
    /\ RunIdle /\ MergeIdle /\ CacheFresh /\ CompIdle

\* the data is scored again with one more of the agent's fields populated
ScoreWithOneMore(agent, pool) ==
    /\ scored.agent = agent
    /\ \E f \in pool \ scored.fields : \E passes \in BOOLEAN :
         LET fields   == scored.fields \cup {f}
             rejected == scored.rejected \cup (IF passes THEN {} ELSE {f})
         IN scored' = [scored EXCEPT !.fields = fields, !.rejected = rejected,
                          !.before = scored.confidence,
                          !.confidence = ConfidenceOf(agent, scored.kind,
                                                      fields \ rejected)]
    /\ UNCHANGED <<nav, flowVars, statistics, opLog, written, lastOp, verdicts, cancel,
                   created, flight, runVars, mergeVars, cacheVars, compVars>>

ScoreProfile == ScoreWithOneMore("LinkedIn", LinkedInFields)
ScoreListing == ScoreWithOneMore("Directory", DirectoryFields)
ScoreWebsiteData == ScoreWithOneMore("Website", WebsiteFields)

NextConfidence == ScoreProfile \/ ScoreListing \/ ScoreWebsiteData

SpecConfidence == InitConfidence /\ [][NextConfidence]_vars

\* C31: for every combination of populated fields the confidence each agent
\* computes lies between 0 and 1 (here 0 and 100 hundredths), and the score
\* of the data with one more field populated is never below the score
\* before.
C31_ConfidenceBoundedMonotone ==
    scored.agent # "none" =>
        /\ 0 <= scored.confidence /\ scored.confidence <= 100
        /\ scored.before <= scored.confidence
        /\ scored.confidence = ConfidenceOf(scored.agent, scored.kind,
                                            scored.fields \ scored.rejected)

\* a profile with all five fields holding usable values: the boosts add up to
\* 1.1 and the score is 1.0, as it already was with four
C31_Witness ==
    /\ scored.agent = "LinkedIn" /\ scored.fields = LinkedInFields
    /\ scored.rejected = {} /\ scored.before = 100 /\ scored.confidence = 100

(***************************************************************************)
(* Retries of one task against the failures of the others.                 *)
(***************************************************************************)
\* would the catch block requeue task i after its k-th failure if the k - 1
\* retries before it were all its own: the counter stands at k - 1 and the
\* copy in hand has lost k - 1 from its budget
OwnBudgetLeft(i, k) ==
    RetryTest(k - 1, [submitted[i] EXCEPT !.retryAttempts = @ - (k - 1)])

\* C32: how often a task is dispatched depends on its own budget and its own
\* handler outcomes only: a task is given up after a failure only when the
\* retries it had itself leave no retry for that failure, whatever the other
\* tasks of the run did.
C32_RetriesIndependentOfOtherTasks ==
    node = "END" =>
        \A i \in Ids(submitted) :
            (dispatched[i] > 0 /\ failed[i] = dispatched[i]) =>
                ~OwnBudgetLeft(i, failed[i])

(***************************************************************************)
(* The approval gate in a run started by executeTasks.                     *)
(***************************************************************************)
AgentNodes == {"linkedin_agent", "directory_agent", "website_agent"}

\* C35: in every state of a run started by executeTasks the approval flag is
\* false, the human_approval node is not entered and no task is completed by
\* an approval denial; a task that is no longer in the pending queue is the
\* task in hand on its way to its handler, or has been handed to a handler.
C35_GateNeverEntered ==
    /\ humanApprovalRequired = FALSE
    /\ node # "human_approval"
    /\ \A k \in 1..Len(errors) : errors[k].kind # "approval_denied"
    /\ \A i \in Ids(submitted) :
         /\ \/ i \in Ids(pendingTasks)
            \/ currentTask.id = i /\ node \in AgentNodes
            \/ dispatched[i] > 0
         /\ Count(completedTasks, i) <= dispatched[i]

\* a run of two tasks that ended with both taken from the queue and completed
C35_Witness ==
    /\ node = "END" /\ Len(submitted) = 2 /\ pendingTasks = <<>>
    /\ \A i \in Ids(submitted) : dispatched[i] > 0 /\ Count(completedTasks, i) = 1

(***************************************************************************)
(* StagehandWrapper.navigateWithCompliance (stagehand/wrapper.ts): the     *)
(* compliance check, the rate-limit check with its sleep, the page cache   *)
(* and page.goto, as one call that runs to its end before the next starts. *)
(* A call that sleeps moves the clock on by the time it sleeps.            *)
(***************************************************************************)
PageDataTtl == 3600

\* what checkCompliance(url) gives a caller with the store c at time t:
\* whether it threw, the decision, and the store it leaves
ComplianceCall(url, c, t, fails) ==
    IF url = BadUrl
    THEN [threw |-> TRUE, result |-> NoResult, store |-> StoreOnThrow(c, url, t)]
    ELSE LET key == <<"compliance", url.host>> IN
         IF CacheLive(c, key, t)
         THEN [threw |-> FALSE, result |-> c[key].value, store |-> c]
         ELSE LET c1 == CacheAfterGet(c, key, t)
                  rob == IF config.respectRobotsTxt
                         THEN checkRobotsTxt(url, c1, t, config, fails,
                                             robotsServed[url.host])
                         ELSE [result |-> NoResult, store |-> c1, fetched |-> FALSE]
                  res == CombineChecks(config.respectRobotsTxt, rob.result,
                                       checkDomainRules(url.host),
                                       checkTermsOfService(url.host))
              IN [threw |-> FALSE, result |-> res,
                  store |-> CacheSet(rob.store, key, res, ComplianceTtl, t)]

\* what checkRateLimit(domain) gives a caller with the store c at time t
RateLimitCall(domain, c, t) ==
    LET key == RateKey(domain)
        lastRequest == CacheRead(c, key, t)
        timeSinceLastRequest == DateNow(t) - lastRequest
        requiredDelay == config.rateLimitDelay
    IN IF lastRequest # 0 /\ timeSinceLastRequest < requiredDelay
       THEN [allowed |-> FALSE, waitTime |-> requiredDelay - timeSinceLastRequest,
             store |-> RateStoreOnRefusal(c, key, t)]
       ELSE [allowed |-> TRUE, waitTime |-> 0,
             store |-> CacheSet(CacheAfterGet(c, key, t), key, DateNow(t),
                                RateLimitTtl, t)]

\* `page:${hashUrl(url)}`
PageKeyOf(url) == <<"page", url.host \o url.path>>

\* (variant: the decision is not looked at)
ComplianceGateOpen(complianceResult) == TRUE
\* the test in front of the throw: complianceResult.allowed
ComplianceGate(complianceResult) == complianceResult.allowed

\* the last-request entries of the store
RateEntries(c) == [k \in {j \in DOMAIN c : j[1] = "ratelimit"} |-> c[k]]

\* navigateWithCompliance(url, taskId); `fails`: the robots.txt fetch fails,
\* `gotoFails`: page.goto throws
navigateWithCompliance(url, fails, gotoFails) ==
    LET comp == ComplianceCall(url, cache, now, fails)
        call == [NoCall EXCEPT !.url = url, !.raised = comp.threw,
                               !.allowed = (~comp.threw /\ comp.result.allowed)]
    IN IF comp.threw \/ ~ComplianceGate(comp.result)
       THEN /\ cache' = comp.store
            /\ nav' = [nav EXCEPT !.calls = @ + 1,
                                  !.last = [call EXCEPT !.outcome = "rejected"]]
            /\ UNCHANGED now
       ELSE LET rate  == RateLimitCall(url.host, comp.store, now)
                slept == IF ~rate.allowed /\ rate.waitTime # 0 THEN rate.waitTime ELSE 0
                t2    == now + (slept \div 1000)
                key   == PageKeyOf(url)
                c2    == CacheAfterGet(rate.store, key, t2)
                done  == [call EXCEPT !.slept = slept, !.stamped = rate.allowed]
            IN /\ now' = t2
               /\ IF CacheLive(rate.store, key, t2)
                  THEN /\ cache' = c2
                       /\ nav' = [nav EXCEPT !.calls = @ + 1,
                                     !.last = [done EXCEPT !.outcome = "cached"]]
                  ELSE IF gotoFails
                  THEN /\ cache' = c2
                       /\ nav' = [nav EXCEPT !.calls = @ + 1,
                                     !.last = [done EXCEPT !.outcome = "rejected"]]
                  ELSE /\ cache' = CacheSet(c2, key, 1, PageDataTtl, t2)
                       /\ nav' = [calls |-> nav.calls + 1,
                                  visits |-> Append(nav.visits,
                                               [url |-> url, at |-> DateNow(t2)]),
                                  last |-> [done EXCEPT !.outcome = "navigated"]]

NavigateWithCompliance ==
    /\ nav.calls < MaxCalls
    /\ \E host \in DOMAIN robotsServed :
         \E url \in {[host |-> host, path |-> Net.pathPrivatePage],
                     [host |-> host, path |-> Net.pathPublic], BadUrl} :
            \E fails \in BOOLEAN, gotoFails \in BOOLEAN :
               navigateWithCompliance(url, fails, gotoFails)
    /\ UNCHANGED <<ticks, config, robotsServed, fetchFailed, lastCheck, scored, flowVars,
                   statistics, opLog, written, lastOp, verdicts, cancel, created, flight,
                   runVars, mergeVars>>

\* the clock between calls: by a second, by an hour
NavigateTick == Tick /\ now' - now \in {1, ComplianceTtl}

NextNavigate == NavigateWithCompliance \/ NavigateTick

SpecNavigate == InitDecision /\ [][NextNavigate]_vars

\* C33: two page navigations to the same domain made one after the other
\* through navigateWithCompliance are at least the configured rate-limit
\* delay apart, also when a call had to sleep.
C33_NavigationsSpacedByDelay ==
    \A i \in 1..Len(nav.visits) : \A j \in (i + 1)..Len(nav.visits) :
        nav.visits[i].url.host = nav.visits[j].url.host =>
            nav.visits[j].at - nav.visits[i].at >= config.rateLimitDelay

\* C34: a call navigates only after checkCompliance has returned allowed =
\* true in that call; a call whose check returns allowed = false or throws
\* is rejected without a navigation and leaves every last-request timestamp
\* as it was.
C34_NavigateOnlyWhenAllowed ==
    [][ nav'.calls = nav.calls + 1 =>
          /\ nav'.visits # nav.visits =>
                /\ nav'.last.allowed /\ ~nav'.last.raised
                /\ nav'.last.url = nav'.visits[Len(nav'.visits)].url
          /\ (nav'.last.raised \/ ~nav'.last.allowed) =>
                /\ nav'.last.outcome = "rejected"
                /\ nav'.visits = nav.visits
                /\ RateEntries(cache') = RateEntries(cache) ]_vars

\* a call for a host the checks turn down was rejected after an earlier call
\* had thrown on its URL
C34_Witness ==
    /\ nav.calls >= 2 /\ nav.last.outcome = "rejected"
    /\ ~nav.last.allowed /\ ~nav.last.raised /\ nav.last.url # BadUrl
    /\ nav.visits = <<>>

(***************************************************************************)
(* LeadGenerationCoordinator.cleanup.  Every coordinator, checker, agent   *)
(* and wrapper holds CacheManager.getInstance(), the one store `cache`.     *)
(***************************************************************************)
\* (variant: only the entries past their time are dropped)
flushExpired(c, t) == [k \in {j \in DOMAIN c : CacheLive(c, j, t)} |-> c[k]]
\* CacheManager.clear(): this.cache.flushAll()
flushAll(c, t) == EmptyCache

\* cleanup() of a coordinator: the browser is closed (StagehandWrapper.cleanup
\* swallows its own errors), then the cache is cleared
cleanup ==
    /\ opLog.ops < MaxOps
    /\ cache' = flushAll(cache, now)
    /\ written' = <<>>
    /\ lastOp' = [NoOp EXCEPT !.op = "cleanup", !.at = now,
                              !.result = Cardinality(DOMAIN cache)]
    /\ opLog' = LogCall(opLog, FALSE, FALSE, FALSE)
    /\ UNCHANGED <<statistics, cacheCallFrame>>

\* checkRateLimit for the host of the compliance checks, or for another one
CheckRateLimitOfHost ==
    /\ opLog.ops < MaxOps
    /\ \E domain \in DOMAIN robotsServed \cup {Net.hX} : checkRateLimit(domain)
    /\ UNCHANGED cacheCallFrame

\* a process whose checker has one host to decide on
InitCleanup ==
    /\ config = [respectRobotsTxt |-> TRUE, rateLimitDelay |-> RateLimitDelayDefault]
    /\ robotsServed \in UNION { [{h} -> {Served(TRUE, RobotsPrivate)}] :
                                    h \in {Net.hX, Net.hFacebook} }
    /\ fetchFailed = FALSE /\ lastCheck = NoCheck
    /\ CacheFresh /\ RunIdle /\ MergeIdle /\ AuxIdle

\* the clock, second by second
CleanupTick == Tick /\ now' = now + 1

NextCleanup ==
    \/ CheckDecision
    \/ CheckRateLimitOfHost
    \/ CacheManagerHas
    \/ cleanup
    \/ CleanupTick

SpecCleanup == InitCleanup /\ [][NextCleanup]_vars

\* C36: cleanup() leaves the process-wide cache without any entry, whoever
\* wrote the entries: has(key) asked next is false, and the next
\* checkRateLimit, for any domain, returns allowed.
C36_CleanupEmptiesSharedCache ==
    /\ [][ (lastOp'.op = "cleanup" /\ opLog'.ops = opLog.ops + 1) =>
               DOMAIN cache' = {} ]_vars
    /\ [][ (lastOp.op = "cleanup" /\ opLog'.ops = opLog.ops + 1
                /\ lastOp'.op \in {"rate", "has"}) =>
               \/ lastOp'.op = "rate" /\ lastOp'.result = 1 /\ lastOp'.wait = 0
               \/ lastOp'.op = "has" /\ lastOp'.result = 0 ]_vars

\* a cleanup that removed a last-request timestamp and a compliance decision
C36_Witness ==
    /\ lastOp.op = "cleanup" /\ lastOp.result >= 2 /\ cache = EmptyCache
    /\ lastCheck # NoCheck /\ opLog.sets >= 1

(***************************************************************************)
(* The search / navigate / extract / approve / save graph (graph.ts and    *)
(* its nodes).  A node returns a partial state; a channel it names takes   *)
(* the value through the channel's reducer, a channel it does not name     *)
(* keeps its value.  `trail` records what was attempted, sent to           *)
(* extraction, approved, rejected and written to leads.csv.                *)
(***************************************************************************)
MaxResults == 2        \* length of the list the search may return

Site == [ u1 |-> <<"u","1">>, u2 |-> <<"u","2">>, u3 |-> <<"u","3">>,
          contact |-> <<"c">> ]
ResultUrls == {Site.u1, Site.u2, Site.u3}
SearchResultLists == UNION { [1..n -> ResultUrls] : n \in 0..MaxResults }

Contact == [ ann |-> [name |-> Txt.nAnn, email |-> Txt.eAnn, phone |-> Undef],
             bo  |-> [name |-> Txt.nBo,  email |-> Undef,    phone |-> Txt.pShort] ]
\* what stagehand.get may find on a page
ExtractionPool == { <<>>, <<Contact.ann>>, <<Contact.bo, Contact.ann>> }
\* what the user may type at the prompt
Responses == { <<"y">>, <<"Y">>, <<"n">>, <<"y","e","s">> }

List(items) == [isNull |-> FALSE, items |-> items]
\* !data || data.length === 0
NullOrEmpty(data) == data.isNull \/ data.items = <<>>
FlowError(kind, url) == [kind |-> kind, url |-> url]

\* String.prototype.toLowerCase on the letters a response may hold
toLowerCase(str) ==
    [i \in 1..Len(str) |-> IF str[i] = "Y" THEN "y" ELSE str[i]]

\* search_results.filter(url => !processed_urls.includes(url))
Remaining(results, processed) ==
    SelectSeq(results, LAMBDA url : \A k \in 1..Len(processed) : processed[k] # url)

\* search_results.find(url => !processed_urls.includes(url)); NullUrl when
\* find gives undefined
NextUrl(results, processed) ==
    IF Remaining(results, processed) = <<>> THEN NullUrl
    ELSE Head(Remaining(results, processed))

\* (variant: the update takes the place of the channel's value)
ReplaceReducer(x, y) == y
\* the reducer of the final_output channel: (x, y) => x.concat(y)
FinalOutputReducer(x, y) == x \o y

\* the conditional edge that leaves navigate
NavigateEdge(err, url, results, processed) ==
    IF err # NoFlowError \/ url = NullUrl
    THEN IF Len(Remaining(results, processed)) > 0 THEN "navigate" ELSE "END"
    ELSE "extract"

\* the variables the graph leaves alone
flowFrame == <<scored, nav, statistics, opLog, written, lastOp, verdicts, cancel,
               created, flight, runVars, mergeVars, cacheVars, compVars>>

\* app.invoke on the channel defaults; the extraction Map of the module is empty
InitFlow ==
    /\ step = "search" /\ search_results = <<>> /\ processed_urls = <<>>
    /\ current_url = NullUrl /\ extracted_data = Null /\ user_approved_data = Null
    /\ final_output = <<>> /\ error = NoFlowError /\ extractionCache = <<>>
    /\ trail = NoTrail
    /\ scored = NoScore /\ nav = NoNav /\ CoreIdle
    /\ RunIdle /\ MergeIdle /\ CacheFresh /\ CompIdle

\* node search
searchAgent ==
    /\ step = "search"
    /\ \/ \E results \in SearchResultLists :
            /\ search_results' = results
            /\ processed_urls' = <<>>
            /\ UNCHANGED error
       \/ /\ search_results' = <<>>
          /\ error' = FlowError("search", NullUrl)
          /\ UNCHANGED processed_urls
    /\ step' = "navigate"
    /\ UNCHANGED <<current_url, extracted_data, user_approved_data, final_output,
                   extractionCache, trail, flowFrame>>

\* (variant: a URL whose navigation failed is not marked)
ProcessedAfterFailureUnmarked(processed, url) == processed
\* the catch block: processed_urls: [...state.processed_urls, nextUrl]
ProcessedAfterFailure(processed, url) == Append(processed, url)

\* node navigate, with the conditional edge that leaves it
navigationAgent ==
    /\ step = "navigate"
    /\ trail.navSteps <= Len(search_results) + 1
    /\ LET nextUrl == NextUrl(search_results, processed_urls) IN
       IF nextUrl = NullUrl
       THEN /\ current_url' = NullUrl
            /\ trail' = [trail EXCEPT !.navSteps = @ + 1]
            /\ UNCHANGED <<processed_urls, error>>
       ELSE \E ok \in BOOLEAN :
            /\ trail' = [trail EXCEPT !.navSteps = @ + 1,
                            !.attempts = Append(@, [url |-> nextUrl, ok |-> ok])]
            /\ IF ok
               THEN /\ \E page \in {nextUrl, Site.contact} : current_url' = page
                    /\ processed_urls' = Append(processed_urls, nextUrl)
                    /\ UNCHANGED error
               ELSE /\ current_url' = NullUrl
                    /\ processed_urls' = ProcessedAfterFailure(processed_urls, nextUrl)
                    /\ error' = FlowError("navigation", nextUrl)
    /\ step' = NavigateEdge(error', current_url', search_results, processed_urls')
    /\ UNCHANGED <<search_results, extracted_data, user_approved_data, final_output,
                   extractionCache, flowFrame>>

\* node extract
extractionAgent ==
    /\ step = "extract"
    /\ IF current_url = NullUrl
       THEN /\ extracted_data' = Null
            /\ UNCHANGED <<error, extractionCache>>
       ELSE IF current_url \in DOMAIN extractionCache
       THEN /\ extracted_data' = List(extractionCache[current_url])
            /\ UNCHANGED <<error, extractionCache>>
       ELSE \/ \E data \in ExtractionPool :
                 /\ extracted_data' = List(data)
                 /\ extractionCache' =
                       [u \in DOMAIN extractionCache \cup {current_url} |->
                           IF u = current_url THEN data ELSE extractionCache[u]]
                 /\ UNCHANGED error
            \/ /\ extracted_data' = Null
               /\ error' = FlowError("extraction", current_url)
               /\ UNCHANGED extractionCache
    /\ trail' = [trail EXCEPT !.extracted = Append(@, Len(trail.attempts))]
    /\ step' = "human_in_loop"
    /\ UNCHANGED <<search_results, processed_urls, current_url, user_approved_data,
                   final_output, flowFrame>>

\* (variant: a rejection leaves the channel as it was)
OnRejectionKept(approved) == approved
\* the else branch: { user_approved_data: null }
OnRejection(approved) == Null

\* node human_in_loop
humanInTheLoopNode ==
    /\ step = "human_in_loop"
    /\ IF NullOrEmpty(extracted_data)
       THEN /\ user_approved_data' = Null
            /\ trail' = [trail EXCEPT !.last = [batch |-> extracted_data,
                                                verdict |-> "nothing"]]
       ELSE \E response \in Responses :
            IF toLowerCase(response) = <<"y">>
            THEN /\ user_approved_data' = extracted_data
                 /\ trail' = [trail EXCEPT !.approved = @ \o extracted_data.items,
                                 !.last = [batch |-> extracted_data,
                                           verdict |-> "approved"]]
            ELSE /\ user_approved_data' = OnRejection(user_approved_data)
                 /\ trail' = [trail EXCEPT !.rejected = Append(@, extracted_data.items),
                                 !.last = [batch |-> extracted_data,
                                           verdict |-> "rejected"]]
    /\ step' = "save"
    /\ UNCHANGED <<search_results, processed_urls, current_url, extracted_data,
                   final_output, error, extractionCache, flowFrame>>

\* node save
storageNode ==
    /\ step = "save"
    /\ IF NullOrEmpty(user_approved_data)
       THEN UNCHANGED <<final_output, trail>>
       ELSE /\ final_output' = FinalOutputReducer(final_output,
                                   final_output \o user_approved_data.items)
            /\ trail' = [trail EXCEPT !.csv = @ \o user_approved_data.items]
    /\ step' = "navigate"
    /\ UNCHANGED <<search_results, processed_urls, current_url, extracted_data,
                   user_approved_data, error, extractionCache, flowFrame>>

NextFlow ==
    \/ searchAgent
    \/ navigationAgent
    \/ extractionAgent
    \/ humanInTheLoopNode
    \/ storageNode

SpecFlow == InitFlow /\ [][NextFlow]_vars

\* the graph runs a node whenever one is due
FairSpecFlow == InitFlow /\ [][NextFlow]_vars /\ WF_vars(NextFlow)

(***************************************************************************)
(* Properties of a run of the search / navigate / extract graph.           *)
(***************************************************************************)
\* C37: every search-result URL whose navigation succeeded is passed to
\* extraction; a failure on one URL does not keep a URL navigated later from
\* being extracted.
C37_NavigatedUrlsExtracted ==
    step = "END" =>
        \A k \in 1..Len(trail.attempts) :
            trail.attempts[k].ok =>
                \E m \in 1..Len(trail.extracted) : trail.extracted[m] = k

\* C38: after any number of save steps final_output holds each approved lead
\* once per approval, in the order of the approvals; its length is the
\* number of leads approved so far.
C38_FinalOutputOncePerApproval ==
    step \in {"navigate", "END"} =>
        /\ final_output = trail.approved
        /\ Len(final_output) = Len(trail.approved)

\* C39: the graph ends: every URL attempted is in processed_urls whether its
\* navigation succeeded or failed, no URL is attempted twice, the navigate
\* node runs at most (number of search results + 1) times, and END is
\* reached.
C39_FlowTerminates ==
    /\ <>(step = "END")
    /\ [](trail.navSteps <= Len(search_results) + 1)
    /\ [](\A k \in 1..Len(trail.attempts) :
             /\ \E m \in 1..Len(processed_urls) :
                    processed_urls[m] = trail.attempts[k].url
             /\ \A j \in 1..Len(trail.attempts) :
                    trail.attempts[j].url = trail.attempts[k].url => j = k)

\* a run over two results, both navigated and handed on, that ended when a
\* third navigate step found nothing left
C39_Witness ==
    /\ step = "END" /\ Len(search_results) = 2 /\ trail.navSteps = 3
    /\ Len(trail.attempts) = 2 /\ Len(processed_urls) = 2

\* C40: a lead is in final_output, and in leads.csv, only if it belongs to a
\* batch the user approved; final_output changes in a save step only, and
\* only when the answer to the batch just extracted was an approval; a
\* rejected or empty batch leaves final_output and the file as they were.
C40_OnlyApprovedLeadsSaved ==
    /\ [](/\ \A k \in 1..Len(final_output) :
                \E m \in 1..Len(trail.approved) : trail.approved[m] = final_output[k]
          /\ \A k \in 1..Len(trail.csv) :
                \E m \in 1..Len(trail.approved) : trail.approved[m] = trail.csv[k])
    /\ [][ (final_output' # final_output \/ trail'.csv # trail.csv) =>
               /\ step = "save"
               /\ trail.last.verdict = "approved"
               /\ trail.last.batch = extracted_data ]_vars
    /\ [][ (step = "save" /\ trail.last.verdict # "approved") =>
               /\ final_output' = final_output
               /\ trail'.csv = trail.csv ]_vars

\* an approved batch was saved, and a later batch, rejected, has gone through
\* its save step
C40_Witness ==
    /\ step \in {"navigate", "END"} /\ final_output # <<>>
    /\ trail.last.verdict = "rejected" /\ Len(trail.extracted) = 2

====
